---- MODULE Spec2Model ----
(***************************************************************************)
(* NetPilot (src/netpilot.py): the Configuration Synchronization Engine    *)
(* (SystemConfigManager) and the Driver Resolution Engine                  *)
(* (EnhancedDriverDatabase, AdvancedNetworkManager).                       *)
(*                                                                         *)
(* Text is a sequence of atoms.  The atoms "\n", " ", "#", "=" and the     *)
(* double quote are the characters the parser and the writer look at;      *)
(* every other atom stands for a non-empty run of ordinary characters.     *)
(***************************************************************************)
EXTENDS Integers, Sequences, FiniteSets, TLC

VARIABLES
    fs,               \* the files: path -> [exists, readable, data]
    backups,          \* the backup directory: backup path -> file data
    changes,          \* SystemConfigManager.changes, the journal
    now,              \* the clock, in seconds
    pc,               \* position of the running add_*_conf_entries call
    call,             \* its locals, and what the file and journal were at entry
    lastOk,           \* per file: the entries of the latest call if it succeeded
    calls,            \* number of calls started
    faults,           \* number of I/O operations that have failed
    desired,          \* the entry list the caller wants in place during this run
    rules,            \* EnhancedDriverDatabase.rules
    loaded_modules,   \* AdvancedNetworkManager.loaded_modules
    failed_modules,   \* AdvancedNetworkManager.failed_modules
    kld,              \* the modules the kernel has loaded
    cache,            \* CommandRunner._cache: command -> its recorded result
    device,           \* the descriptor under resolution
    matched,          \* the match_device calls made for device: result, and loads so far
    loads,            \* number of _load_single_module calls made
    resolved,         \* the get_specific_firmware_package call made, if any
    devices,          \* all_devices: the batch of descriptors discovery returned
    queue,            \* positions in devices in the order they are processed
    bpc,              \* position of run_comprehensive_discovery
    frame,            \* _load_driver_for_device: place in queue, rule, prerequisite
    results,          \* driver_results: successful, failed, firmware_installed
    trace,            \* what the batch did, in order
    cmdfaults,        \* number of commands that ran and did not end well
    enable_boot_config,   \* arguments of run_comprehensive_discovery
    enable_dhcp_config,
    interfaces,       \* what _discover_interfaces_comprehensive returns
    config_changes,   \* _configure_system_files: file -> success of its call
    pool              \* _discover_interfaces_comprehensive and its run_parallel call

vars == <<fs, backups, changes, now, pc, call, lastOk, calls, faults, desired,
          rules, loaded_modules, failed_modules, kld, cache, device, matched, loads,
          resolved, devices, queue, bpc, frame, results, trace, cmdfaults,
          enable_boot_config, enable_dhcp_config, interfaces, config_changes, pool>>

syncVars == <<fs, backups, changes, now, pc, call, lastOk, calls, faults, desired>>
loadVars == <<rules, loaded_modules, failed_modules, kld, cache, device, matched, loads>>
batchVars == <<devices, queue, bpc, frame, results, trace, cmdfaults,
               enable_boot_config, enable_dhcp_config, interfaces, config_changes>>
otherVars == <<resolved, batchVars, pool>>

-----------------------------------------------------------------------------
(* Bounds *)

MaxEntries == 2
MaxCalls == 2
MaxFaults == 1
MaxMatches == 2
MaxLoads == 1
MaxRules == 2
MaxBatch == 2
MaxCmdFaults == 1
MaxIfaces == 3

-----------------------------------------------------------------------------
(* Text primitives: Python's str methods on atom sequences *)

NL == "\n"
SP == " "
HASH == "#"
EQ == "="
DQ == "\""

Whitespace == {SP, NL}

None == <<>>
Some(x) == <<x>>

RECURSIVE lstrip(_, _)
lstrip(s, cs) ==
    IF s # <<>> /\ Head(s) \in cs THEN lstrip(Tail(s), cs) ELSE s

RECURSIVE rstrip(_, _)
rstrip(s, cs) ==
    IF s # <<>> /\ s[Len(s)] \in cs THEN rstrip(SubSeq(s, 1, Len(s) - 1), cs) ELSE s

strip(s, cs) == rstrip(lstrip(s, cs), cs)

Contains(s, c) == \E i \in 1..Len(s) : s[i] = c

\* index of the first c in s, 0 when there is none
IndexOf(s, c) ==
    IF Contains(s, c) THEN CHOOSE i \in 1..Len(s) : s[i] = c /\ \A j \in 1..(i - 1) : s[j] # c
    ELSE 0

\* s.split('=', 1) for an s that contains '='
split1(s) ==
    LET i == IndexOf(s, EQ)
    IN  <<SubSeq(s, 1, i - 1), SubSeq(s, i + 1, Len(s))>>

\* f.readlines(): the lines with their terminators
RECURSIVE readlines(_)
readlines(data) ==
    IF data = <<>> THEN <<>>
    ELSE LET i == IndexOf(data, NL)
         IN  IF i = 0 THEN <<data>>
             ELSE <<SubSeq(data, 1, i)>> \o readlines(SubSeq(data, i + 1, Len(data)))

\* f.writelines(lines): the concatenation
RECURSIVE Concat(_)
Concat(lines) ==
    IF lines = <<>> THEN <<>> ELSE Head(lines) \o Concat(Tail(lines))

\* the test both the reader and the writer apply to a stripped line
IsKeyLine(line) ==
    LET stripped == strip(line, Whitespace)
    IN  stripped # <<>> /\ Head(stripped) # HASH /\ Contains(stripped, EQ)

LineKey(line) == strip(split1(strip(line, Whitespace))[1], Whitespace)

\* a reader that strips the white space but leaves the quotes
LineValue_keepquotes(line) == strip(split1(strip(line, Whitespace))[2], Whitespace)

LineValue(line) == strip(strip(split1(strip(line, Whitespace))[2], Whitespace), {DQ})

\* f'{key}="{value}"\n'
FormatLine(key, value) == key \o <<EQ, DQ>> \o value \o <<DQ, NL>>

-----------------------------------------------------------------------------
(* Files, time and entries *)

loader_conf == "/boot/loader.conf"
rc_conf == "/etc/rc.conf"
Targets == {loader_conf, rc_conf}

\* a temporary file that is the target itself
with_suffix_same(path) == path

\* Path.with_suffix('.tmp')
with_suffix_tmp(path) == IF path = loader_conf THEN "/boot/loader.tmp" ELSE "/etc/rc.tmp"

\* Path.name
PathName(path) == IF path = loader_conf THEN "loader.conf" ELSE "rc.conf"

Paths == Targets \cup {with_suffix_tmp(p) : p \in Targets}

Missing == [exists |-> FALSE, readable |-> FALSE, data |-> <<>>]
NewFile(data) == [exists |-> TRUE, readable |-> TRUE, data |-> data]

\* datetime.now().strftime(...): one atom per second of the clock
Timestamp(t) == <<"t0", "t1", "t2", "t3", "t4">>[t + 1]

\* f"{file_path.name}.{timestamp}.backup" under backup_dir
BackupName(path, t) == <<PathName(path), Timestamp(t)>>

EmptyDict == [k \in {} |-> <<>>]
DictPut(d, k, v) == [x \in (DOMAIN d) \cup {k} |-> IF x = k THEN v ELSE d[x]]
DictGet(d, k) == IF k \in DOMAIN d THEN Some(d[k]) ELSE None

Keys == {<<"a">>, <<"b">>}
Values == {<<"Y">>, <<"N">>}
CommentOf(k) == IF k = <<"a">> THEN <<"load a">> ELSE <<>>

\* SystemConfigEntry (file_path is the target of the call)
Entries == {[key |-> k, value |-> v, comment |-> CommentOf(k)] : k \in Keys, v \in Values}

RECURSIVE SeqsUpTo(_, _)
SeqsUpTo(S, n) ==
    IF n = 0 THEN {<<>>}
    ELSE LET shorter == SeqsUpTo(S, n - 1)
         IN  shorter \cup {Append(s, x) : s \in {t \in shorter : Len(t) = n - 1}, x \in S}

\* the lists a caller passes: a key may repeat, with one desired value
EntryLists ==
    {es \in SeqsUpTo(Entries, MaxEntries) :
        \A i, j \in 1..Len(es) : es[i].key = es[j].key => es[i].value = es[j].value}

-----------------------------------------------------------------------------
(* SystemConfigManager: the pure parts *)

RECURSIVE ParseLines(_, _)
ParseLines(lines, config) ==
    IF lines = <<>> THEN config
    ELSE ParseLines(Tail(lines),
                    IF IsKeyLine(Head(lines))
                    THEN DictPut(config, LineKey(Head(lines)), LineValue(Head(lines)))
                    ELSE config)

\* a missing file is an empty config; a failed open is logged and gives an empty config
read_config_file(file) ==
    IF ~file.exists \/ ~file.readable THEN EmptyDict
    ELSE ParseLines(readlines(file.data), EmptyDict)

\* "entry.key not in existing_config or existing_config[entry.key] != entry.value"
IsChange(entry, existing_config) ==
    entry.key \notin DOMAIN existing_config \/ existing_config[entry.key] # entry.value

FilterEntries(entries, existing_config) ==
    SelectSeq(entries, LAMBDA e : IsChange(e, existing_config))

\* the two actions swapped
ChangeAction_swapped(entry, existing_config) ==
    IF entry.key \in DOMAIN existing_config THEN "added" ELSE "modified"

ChangeAction(entry, existing_config) ==
    IF entry.key \in DOMAIN existing_config THEN "modified" ELSE "added"

ConfigurationChange(entry, existing_config, path, backup_file, t) ==
    [timestamp |-> Timestamp(t),
     file_path |-> path,
     action |-> ChangeAction(entry, existing_config),
     key |-> entry.key,
     old_value |-> DictGet(existing_config, entry.key),
     new_value |-> entry.value,
     backup_file |-> backup_file]

RECURSIVE RecordChanges(_, _, _, _, _)
RecordChanges(new_entries, existing_config, path, backup_file, t) ==
    IF new_entries = <<>> THEN <<>>
    ELSE <<ConfigurationChange(Head(new_entries), existing_config, path, backup_file, t)>>
         \o RecordChanges(Tail(new_entries), existing_config, path, backup_file, t)

HasEntry(new_entries, key) == \E i \in 1..Len(new_entries) : new_entries[i].key = key

\* the entry the inner "for entry in new_entries ... break" stops at
FirstEntry(new_entries, key) ==
    new_entries[CHOOSE i \in 1..Len(new_entries) :
                    /\ new_entries[i].key = key
                    /\ \A j \in 1..(i - 1) : new_entries[j].key # key]

\* a pass that also rewrites the key lines no entry names, in the normal form
ProcessLine_normalise(line, new_entries) ==
    IF IsKeyLine(line)
    THEN FormatLine(LineKey(line),
                    IF HasEntry(new_entries, LineKey(line))
                    THEN FirstEntry(new_entries, LineKey(line)).value
                    ELSE LineValue(line))
    ELSE line

\* one pass of "for line in existing_lines"
ProcessLine(line, new_entries) ==
    IF IsKeyLine(line) /\ HasEntry(new_entries, LineKey(line))
    THEN FormatLine(LineKey(line), FirstEntry(new_entries, LineKey(line)).value)
    ELSE line

\* every key of new_entries counted as processed
processed_keys_all(existing_lines, new_entries) ==
    {new_entries[i].key : i \in 1..Len(new_entries)}

processed_keys(existing_lines, new_entries) ==
    {LineKey(existing_lines[i]) :
        i \in {j \in 1..Len(existing_lines) :
                  IsKeyLine(existing_lines[j]) /\ HasEntry(new_entries, LineKey(existing_lines[j]))}}

\* "\n# NetPilot Configuration - <time>\n", appended as one element
Marker(t) == <<NL, HASH, SP, "NetPilot Configuration - ", Timestamp(t), NL>>

CommentLine(comment) == <<HASH, SP>> \o comment \o <<NL>>

\* the block written last entry first
RECURSIVE EntryLines_reversed(_)
EntryLines_reversed(unprocessed) ==
    IF unprocessed = <<>> THEN <<>>
    ELSE EntryLines_reversed(Tail(unprocessed))
         \o (IF Head(unprocessed).comment # <<>>
             THEN <<CommentLine(Head(unprocessed).comment)>> ELSE <<>>)
         \o <<FormatLine(Head(unprocessed).key, Head(unprocessed).value)>>

RECURSIVE EntryLines(_)
EntryLines(unprocessed) ==
    IF unprocessed = <<>> THEN <<>>
    ELSE (IF Head(unprocessed).comment # <<>>
          THEN <<CommentLine(Head(unprocessed).comment)>> ELSE <<>>)
         \o <<FormatLine(Head(unprocessed).key, Head(unprocessed).value)>>
         \o EntryLines(Tail(unprocessed))

\* a writer that forgets processed_keys and appends every new entry
NewLines_appendall(existing_lines, new_entries, t) ==
    [i \in 1..Len(existing_lines) |-> ProcessLine(existing_lines[i], new_entries)]
    \o <<Marker(t)>> \o EntryLines(new_entries)

\* write_config_file up to the write: the new content, as the list new_lines
NewLines(existing_lines, new_entries, t) ==
    LET kept == [i \in 1..Len(existing_lines) |-> ProcessLine(existing_lines[i], new_entries)]
        done == processed_keys(existing_lines, new_entries)
        unprocessed_entries == SelectSeq(new_entries, LAMBDA e : e.key \notin done)
    IN  kept \o (IF unprocessed_entries # <<>>
                 THEN <<Marker(t)>> \o EntryLines(unprocessed_entries)
                 ELSE <<>>)

-----------------------------------------------------------------------------
(* SystemConfigManager: the entries generated for the two files *)

SystemConfigEntry(key, value, comment) == [key |-> key, value |-> value, comment |-> comment]

boot_drivers ==
    {"if_em", "if_igb", "if_ix", "if_re", "if_bge", "if_alc",
     "if_axge", "if_axe", "if_ure", "if_cdce",
     "if_iwm", "if_iwlwifi", "if_ath", "if_ath10k", "if_ath11k",
     "if_rtwn", "if_rtw88", "if_rtw89", "if_bwi",
     "if_urtwn", "if_run", "if_rum", "if_ural"}

\* the two entries of each boot driver, in the order of successful_drivers
RECURSIVE BootDriverEntries(_)
BootDriverEntries(drivers) ==
    IF drivers = <<>> THEN <<>>
    ELSE (IF Head(drivers) \in boot_drivers
          THEN <<SystemConfigEntry(<<Head(drivers), "_load">>, <<"YES">>,
                                   <<"Load ", Head(drivers), " network driver at boot">>),
                 SystemConfigEntry(<<Head(drivers), "_name">>,
                                   <<"/boot/modules/", Head(drivers), ".ko">>,
                                   <<"Specify path for ", Head(drivers), " kernel module">>)>>
          ELSE <<>>)
         \o BootDriverEntries(Tail(drivers))

generate_loader_conf_entries(successful_drivers, firmware_installed) ==
    BootDriverEntries(successful_drivers)
    \o (IF \E i \in 1..Len(successful_drivers) :
               successful_drivers[i] \in {"if_iwlwifi", "if_rtw88", "if_rtw89", "if_ath11k"}
        THEN <<SystemConfigEntry(<<"linuxkpi_load">>, <<"YES">>,
                   <<"Linux KPI compatibility layer for modern WiFi drivers">>),
               SystemConfigEntry(<<"lindebugfs_load">>, <<"YES">>,
                   <<"Linux debugfs compatibility for WiFi drivers">>)>>
        ELSE <<>>)

\* an interface: its name as stem and last character, and its type
NetworkInterface(stem, last, type) == [stem |-> stem, last |-> last, interface_type |-> type]

Digits == {"0", "1", "2", "3", "4", "5", "6", "7", "8", "9"}

\* f"wlan{name[-1]}" if name[-1].isdigit() else "wlan0"
WlanName(interface) ==
    IF interface.last \in Digits THEN <<"wlan", interface.last>> ELSE <<"wlan", "0">>

RECURSIVE generate_rc_conf_entries(_, _)
generate_rc_conf_entries(ifaces, enable_dhcp) ==
    IF ifaces = <<>> THEN <<>>
    ELSE LET interface == Head(ifaces)
             name == <<interface.stem, interface.last>>
         IN  (IF interface.interface_type = "ethernet"
              THEN <<SystemConfigEntry(<<"ifconfig_">> \o name,
                                       IF enable_dhcp THEN <<"DHCP">> ELSE <<"up">>,
                                       <<"Enable ">> \o name \o <<" ethernet interface">>)>>
                   \o (IF enable_dhcp
                       THEN <<SystemConfigEntry(<<"ifconfig_">> \o name, <<"DHCP">>,
                                  <<"Configure ">> \o name \o <<" for DHCP">>)>>
                       ELSE <<>>)
              ELSE IF interface.interface_type = "wifi"
              THEN <<SystemConfigEntry(<<"wlans_">> \o name, WlanName(interface),
                         <<"Create ">> \o WlanName(interface) \o <<" for ">> \o name
                             \o <<" WiFi interface">>),
                     SystemConfigEntry(<<"ifconfig_">> \o WlanName(interface),
                         IF enable_dhcp THEN <<"WPA", SP, "DHCP">> ELSE <<"up">>,
                         IF enable_dhcp
                         THEN <<"Configure ">> \o WlanName(interface) \o <<" for WPA and DHCP">>
                         ELSE <<"Enable ">> \o WlanName(interface))>>
              ELSE <<>>)
             \o generate_rc_conf_entries(Tail(ifaces), enable_dhcp)

-----------------------------------------------------------------------------
(* SystemConfigManager: add_loader_conf_entries / add_rc_conf_entries, step by step *)

NoCall ==
    [target |-> loader_conf, entries |-> <<>>, backup_file |-> None,
     new_entries |-> <<>>, new_lines |-> <<>>, written |-> 0, result |-> None,
     pre |-> Missing, pre_changes |-> <<>>, post |-> None, writes |-> 0,
     repeat |-> FALSE, fault |-> FALSE]

\* "if not entries: return True"; otherwise the call starts.  Every call is
\* made in a second of its own, so no two backups share a name.
Begin(path, entries) ==
    /\ pc = "idle"
    /\ calls < MaxCalls
    /\ calls' = calls + 1
    /\ now' = now + 1
    /\ call' = [NoCall EXCEPT !.target = path, !.entries = entries,
                              !.pre = fs[path], !.pre_changes = changes,
                              !.repeat = (lastOk[path] = Some(entries)),
                              !.result = IF entries = <<>> THEN Some(TRUE) ELSE None]
    /\ pc' = IF entries = <<>> THEN "return" ELSE "backup"
    /\ UNCHANGED <<fs, backups, changes, lastOk, faults, desired>>

\* a backup whose failed copy ends the call
Backup_fatal ==
    /\ pc = "backup"
    /\ \/ /\ ~fs[call.target].exists
          /\ pc' = "read"
          /\ UNCHANGED <<backups, call, faults>>
       \/ /\ fs[call.target].exists /\ fs[call.target].readable
          /\ pc' = "read"
          /\ backups' = DictPut(backups, BackupName(call.target, now), fs[call.target].data)
          /\ call' = [call EXCEPT !.backup_file = Some(BackupName(call.target, now))]
          /\ UNCHANGED faults
       \/ /\ fs[call.target].exists
          /\ ~fs[call.target].readable \/ faults < MaxFaults
          /\ faults' = IF fs[call.target].readable THEN faults + 1 ELSE faults
          /\ pc' = "return"
          /\ call' = [call EXCEPT !.result = Some(FALSE)]
          /\ UNCHANGED backups
    /\ UNCHANGED <<fs, changes, now, lastOk, calls, desired>>

\* backup_file: None for a missing file or a failed copy
Backup ==
    /\ pc = "backup"
    /\ pc' = "read"
    /\ \/ /\ ~fs[call.target].exists
          /\ UNCHANGED <<backups, call, faults>>
       \/ /\ fs[call.target].exists /\ fs[call.target].readable
          /\ backups' = DictPut(backups, BackupName(call.target, now), fs[call.target].data)
          /\ call' = [call EXCEPT !.backup_file = Some(BackupName(call.target, now))]
          /\ UNCHANGED faults
       \/ /\ fs[call.target].exists
          /\ ~fs[call.target].readable \/ faults < MaxFaults
          /\ faults' = IF fs[call.target].readable THEN faults + 1 ELSE faults
          /\ UNCHANGED <<backups, call>>
    /\ UNCHANGED <<fs, changes, now, lastOk, calls, desired>>

\* read the config, filter the entries, record the changes
ReadFilter ==
    /\ pc = "read"
    /\ LET existing_config == read_config_file(fs[call.target])
           new_entries == FilterEntries(call.entries, existing_config)
       IN  /\ changes' = changes \o RecordChanges(new_entries, existing_config,
                                                  call.target, call.backup_file, now)
           /\ call' = [call EXCEPT !.new_entries = new_entries,
                                   !.result = IF new_entries = <<>> THEN Some(TRUE) ELSE None]
           /\ pc' = IF new_entries = <<>> THEN "return" ELSE "write"
    /\ UNCHANGED <<fs, backups, now, lastOk, calls, faults, desired>>

\* write_config_file: read the lines, build new_lines, open the temporary file
WriteOpen ==
    /\ pc = "write"
    /\ \/ /\ fs[call.target].exists /\ ~fs[call.target].readable
          /\ call' = [call EXCEPT !.result = Some(FALSE)]
          /\ pc' = "return"
          /\ UNCHANGED <<fs, faults>>
       \/ /\ ~fs[call.target].exists \/ fs[call.target].readable
          /\ faults < MaxFaults
          /\ faults' = faults + 1
          /\ call' = [call EXCEPT !.result = Some(FALSE), !.fault = TRUE]
          /\ pc' = "return"
          /\ UNCHANGED fs
       \/ /\ ~fs[call.target].exists \/ fs[call.target].readable
          /\ LET existing_lines == IF fs[call.target].exists
                                   THEN readlines(fs[call.target].data) ELSE <<>>
                 new_lines == NewLines(existing_lines, call.new_entries, now)
             IN  call' = [call EXCEPT !.new_lines = new_lines,
                                      !.post = Some(Concat(new_lines))]
          /\ fs' = [fs EXCEPT ![with_suffix_tmp(call.target)] = NewFile(<<>>)]
          /\ pc' = "tmpwrite"
          /\ UNCHANGED faults
    /\ UNCHANGED <<backups, changes, now, lastOk, calls, desired>>

\* f.writelines(new_lines), a line at a time; the write may fail
TmpWrite ==
    /\ pc = "tmpwrite"
    /\ \/ /\ call.written < Len(call.new_lines)
          /\ fs' = [fs EXCEPT ![with_suffix_tmp(call.target)].data =
                                   @ \o call.new_lines[call.written + 1]]
          /\ call' = [call EXCEPT !.written = @ + 1]
          /\ pc' = "tmpwrite"
          /\ UNCHANGED faults
       \/ /\ faults < MaxFaults
          /\ faults' = faults + 1
          /\ call' = [call EXCEPT !.result = Some(FALSE), !.fault = TRUE]
          /\ pc' = "return"
          /\ UNCHANGED fs
    /\ UNCHANGED <<backups, changes, now, lastOk, calls, desired>>

\* temp_file.rename(file_path)
Rename ==
    /\ pc = "tmpwrite"
    /\ call.written = Len(call.new_lines)
    /\ pc' = "return"
    /\ \/ /\ fs' = [fs EXCEPT ![call.target] = fs[with_suffix_tmp(call.target)],
                              ![with_suffix_tmp(call.target)] = Missing]
          /\ call' = [call EXCEPT !.result = Some(TRUE), !.writes = @ + 1]
          /\ UNCHANGED faults
       \/ /\ faults < MaxFaults
          /\ faults' = faults + 1
          /\ call' = [call EXCEPT !.result = Some(FALSE), !.fault = TRUE]
          /\ UNCHANGED fs
    /\ UNCHANGED <<backups, changes, now, lastOk, calls, desired>>

\* the call returns its result; its frame is gone
Return ==
    /\ pc = "return"
    /\ pc' = "idle"
    /\ lastOk' = [lastOk EXCEPT ![call.target] =
                     IF call.result = Some(TRUE) THEN Some(call.entries) ELSE None]
    /\ call' = NoCall
    /\ UNCHANGED <<fs, backups, changes, now, calls, faults, desired>>


-----------------------------------------------------------------------------
(* EnhancedDriverDatabase.  An unset field of a rule is "" (a string), {} (a  *)
(* list used for membership) or <<>>: the code tests the fields for truth.   *)

_load_comprehensive_rules == <<
    [kld |-> "if_igb", vendor |-> "0x8086", vendor_ids |-> {},
     device_ids |-> {"0x10a7", "0x10a9", "0x10d6", "0x10e6", "0x10e7", "0x10e8", "0x150a",
                    "0x1518", "0x1521", "0x1522", "0x1523", "0x1524"},
     device_class |-> "", is_usb |-> FALSE, firmware |-> "",
     device_type |-> "ethernet", load_order |-> 10, dependencies |-> <<>>],
    [kld |-> "if_em", vendor |-> "0x8086", vendor_ids |-> {},
     device_ids |-> {"0x10d3", "0x1502", "0x1533", "0x150c", "0x10de", "0x10df", "0x10ef",
                    "0x1049", "0x104a", "0x104b", "0x104c", "0x104d"},
     device_class |-> "", is_usb |-> FALSE, firmware |-> "",
     device_type |-> "ethernet", load_order |-> 20, dependencies |-> <<>>],
    [kld |-> "if_ix", vendor |-> "0x8086", vendor_ids |-> {},
     device_ids |-> {"0x10fb", "0x10f8", "0x154d", "0x1528", "0x154a", "0x154f", "0x1557",
                    "0x1558", "0x1560", "0x1563", "0x15aa", "0x15ab"},
     device_class |-> "", is_usb |-> FALSE, firmware |-> "",
     device_type |-> "ethernet", load_order |-> 15, dependencies |-> <<>>],
    [kld |-> "if_em", vendor |-> "0x8086", vendor_ids |-> {},
     device_ids |-> {"0x156f", "0x1570", "0x15b7", "0x15b8", "0x15b9", "0x15bb", "0x15bc",
                    "0x15bd", "0x15be", "0x0d4e", "0x0d4f", "0x0d4c"},
     device_class |-> "", is_usb |-> FALSE, firmware |-> "",
     device_type |-> "ethernet", load_order |-> 5, dependencies |-> <<>>],
    [kld |-> "if_re", vendor |-> "0x10ec", vendor_ids |-> {},
     device_ids |-> {"0x8168", "0x8169", "0x8136", "0x8167", "0x8161", "0x8162", "0x8125",
                    "0x3000", "0x8129", "0x8139"},
     device_class |-> "", is_usb |-> FALSE, firmware |-> "",
     device_type |-> "ethernet", load_order |-> 25, dependencies |-> <<>>],
    [kld |-> "if_bge", vendor |-> "0x14e4", vendor_ids |-> {},
     device_ids |-> {},
     device_class |-> "", is_usb |-> FALSE, firmware |-> "",
     device_type |-> "ethernet", load_order |-> 30, dependencies |-> <<>>],
    [kld |-> "if_alc", vendor |-> "0x1969", vendor_ids |-> {},
     device_ids |-> {},
     device_class |-> "", is_usb |-> FALSE, firmware |-> "",
     device_type |-> "ethernet", load_order |-> 35, dependencies |-> <<>>],
    [kld |-> "if_axge", vendor |-> "", vendor_ids |-> {"0x0b95"},
     device_ids |-> {},
     device_class |-> "", is_usb |-> TRUE, firmware |-> "",
     device_type |-> "usb_ethernet", load_order |-> 40, dependencies |-> <<>>],
    [kld |-> "if_axe", vendor |-> "", vendor_ids |-> {"0x0b95", "0x077b", "0x2001"},
     device_ids |-> {},
     device_class |-> "", is_usb |-> TRUE, firmware |-> "",
     device_type |-> "usb_ethernet", load_order |-> 45, dependencies |-> <<>>],
    [kld |-> "if_ure", vendor |-> "", vendor_ids |-> {"0x0bda", "0x0411"},
     device_ids |-> {},
     device_class |-> "", is_usb |-> TRUE, firmware |-> "",
     device_type |-> "usb_ethernet", load_order |-> 50, dependencies |-> <<>>],
    [kld |-> "if_cdce", vendor |-> "", vendor_ids |-> {},
     device_ids |-> {},
     device_class |-> "0x02", is_usb |-> TRUE, firmware |-> "",
     device_type |-> "usb_ethernet", load_order |-> 55, dependencies |-> <<>>],
    [kld |-> "if_iwlwifi", vendor |-> "0x8086", vendor_ids |-> {},
     device_ids |-> {"0x2723", "0x2725", "0x271b", "0x271c", "0x2720", "0x30dc", "0x31dc",
                    "0x9df0", "0x02f0", "0x06f0", "0x34f0", "0x43f0", "0xa0f0", "0x2526",
                    "0x51f0", "0x51f1", "0x54f0", "0x7af0"},
     device_class |-> "", is_usb |-> FALSE, firmware |-> "wifi-firmware-iwlwifi-kmod",
     device_type |-> "wifi", load_order |-> 60, dependencies |-> <<"linuxkpi", "lindebugfs">>],
    [kld |-> "if_iwlwifi", vendor |-> "0x8086", vendor_ids |-> {},
     device_ids |-> {"0x2725", "0x51f0", "0x51f1", "0x54f0", "0x7af0"},
     device_class |-> "", is_usb |-> FALSE, firmware |-> "wifi-firmware-iwlwifi-kmod-ax210",
     device_type |-> "wifi", load_order |-> 58, dependencies |-> <<"linuxkpi", "lindebugfs">>],
    [kld |-> "if_iwlwifi", vendor |-> "0x8086", vendor_ids |-> {},
     device_ids |-> {"0x2723", "0x271b", "0x271c", "0x30dc", "0x31dc", "0x43f0", "0xa0f0"},
     device_class |-> "", is_usb |-> FALSE, firmware |-> "wifi-firmware-iwlwifi-kmod-22000",
     device_type |-> "wifi", load_order |-> 59, dependencies |-> <<"linuxkpi", "lindebugfs">>],
    [kld |-> "if_iwlwifi", vendor |-> "0x8086", vendor_ids |-> {},
     device_ids |-> {"0x9df0", "0x02f0", "0x06f0", "0x34f0"},
     device_class |-> "", is_usb |-> FALSE, firmware |-> "wifi-firmware-iwlwifi-kmod-9000",
     device_type |-> "wifi", load_order |-> 61, dependencies |-> <<"linuxkpi", "lindebugfs">>],
    [kld |-> "if_iwm", vendor |-> "0x8086", vendor_ids |-> {},
     device_ids |-> {"0x095a", "0x095b", "0x24f3", "0x24f4", "0x24f5", "0x24f6"},
     device_class |-> "", is_usb |-> FALSE, firmware |-> "wifi-firmware-iwlwifi-kmod-7000",
     device_type |-> "wifi", load_order |-> 65, dependencies |-> <<>>],
    [kld |-> "if_iwm", vendor |-> "0x8086", vendor_ids |-> {},
     device_ids |-> {"0x24fd", "0x24fb", "0x3165", "0x3166"},
     device_class |-> "", is_usb |-> FALSE, firmware |-> "wifi-firmware-iwlwifi-kmod-8000",
     device_type |-> "wifi", load_order |-> 66, dependencies |-> <<>>],
    [kld |-> "if_ath12k", vendor |-> "0x17cb", vendor_ids |-> {},
     device_ids |-> {"0x1107", "0x1109"},
     device_class |-> "", is_usb |-> FALSE, firmware |-> "wifi-firmware-ath12k-kmod",
     device_type |-> "wifi", load_order |-> 68, dependencies |-> <<"linuxkpi">>],
    [kld |-> "if_ath11k", vendor |-> "0x17cb", vendor_ids |-> {},
     device_ids |-> {"0x1101", "0x1103", "0x1104"},
     device_class |-> "", is_usb |-> FALSE, firmware |-> "wifi-firmware-ath11k-kmod",
     device_type |-> "wifi", load_order |-> 70, dependencies |-> <<"linuxkpi">>],
    [kld |-> "if_ath10k", vendor |-> "0x168c", vendor_ids |-> {},
     device_ids |-> {"0x003c", "0x0041", "0x003e", "0x0040", "0x0046", "0x0056"},
     device_class |-> "", is_usb |-> FALSE, firmware |-> "wifi-firmware-ath10k-kmod",
     device_type |-> "wifi", load_order |-> 75, dependencies |-> <<>>],
    [kld |-> "if_rtw89", vendor |-> "0x10ec", vendor_ids |-> {},
     device_ids |-> {"0x8852", "0x8851", "0xc852", "0xc851"},
     device_class |-> "", is_usb |-> FALSE, firmware |-> "wifi-firmware-rtw89-kmod",
     device_type |-> "wifi", load_order |-> 85, dependencies |-> <<"linuxkpi">>],
    [kld |-> "if_rtw88", vendor |-> "0x10ec", vendor_ids |-> {},
     device_ids |-> {"0x8822", "0x8821", "0xb822", "0xc822", "0x8723", "0xb723"},
     device_class |-> "", is_usb |-> FALSE, firmware |-> "wifi-firmware-rtw88-kmod",
     device_type |-> "wifi", load_order |-> 90, dependencies |-> <<"linuxkpi">>],
    [kld |-> "if_mt76", vendor |-> "0x14c3", vendor_ids |-> {},
     device_ids |-> {"0x7915", "0x7906", "0x7922", "0x7996"},
     device_class |-> "", is_usb |-> FALSE, firmware |-> "wifi-firmware-mt76-kmod",
     device_type |-> "wifi", load_order |-> 95, dependencies |-> <<"linuxkpi">>],
    [kld |-> "if_rtwn", vendor |-> "0x10ec", vendor_ids |-> {},
     device_ids |-> {"0x8176", "0x8178", "0x8188", "0x8192"},
     device_class |-> "", is_usb |-> FALSE, firmware |-> "",
     device_type |-> "wifi", load_order |-> 95, dependencies |-> <<>>],
    [kld |-> "if_bwi", vendor |-> "0x14e4", vendor_ids |-> {},
     device_ids |-> {"0x4311", "0x4312", "0x4315", "0x4318", "0x4319"},
     device_class |-> "", is_usb |-> FALSE, firmware |-> "",
     device_type |-> "wifi", load_order |-> 100, dependencies |-> <<>>],
    [kld |-> "if_ath", vendor |-> "0x168c", vendor_ids |-> {},
     device_ids |-> {},
     device_class |-> "", is_usb |-> FALSE, firmware |-> "",
     device_type |-> "wifi", load_order |-> 105, dependencies |-> <<>>],
    [kld |-> "if_urtwn", vendor |-> "", vendor_ids |-> {"0x0bda", "0x2019", "0x20f4", "0x2001",
                    "0x050d"},
     device_ids |-> {},
     device_class |-> "", is_usb |-> TRUE, firmware |-> "wifi-firmware-rtw88-kmod",
     device_type |-> "usb_wifi", load_order |-> 110, dependencies |-> <<>>],
    [kld |-> "if_mt7601u", vendor |-> "", vendor_ids |-> {"0x148f", "0x0e8d"},
     device_ids |-> {},
     device_class |-> "", is_usb |-> TRUE, firmware |-> "wifi-firmware-mt7601u-kmod",
     device_type |-> "usb_wifi", load_order |-> 115, dependencies |-> <<>>],
    [kld |-> "if_run", vendor |-> "", vendor_ids |-> {"0x148f", "0x0df6", "0x0789", "0x083a",
                    "0x2019"},
     device_ids |-> {},
     device_class |-> "", is_usb |-> TRUE, firmware |-> "",
     device_type |-> "usb_wifi", load_order |-> 120, dependencies |-> <<>>],
    [kld |-> "if_rum", vendor |-> "", vendor_ids |-> {"0x148f", "0x0b05", "0x050d", "0x0769",
                    "0x0411"},
     device_ids |-> {},
     device_class |-> "", is_usb |-> TRUE, firmware |-> "",
     device_type |-> "usb_wifi", load_order |-> 125, dependencies |-> <<>>],
    [kld |-> "if_ural", vendor |-> "", vendor_ids |-> {"0x148f", "0x0b05", "0x050d", "0x13b1",
                    "0x0411"},
     device_ids |-> {},
     device_class |-> "", is_usb |-> TRUE, firmware |-> "",
     device_type |-> "usb_wifi", load_order |-> 130, dependencies |-> <<>>]
>>

blacklist == {"if_iwn"}

\* the tests of match_device without the blacklist test
RuleMatches_noblacklist(rule, dev) ==
    /\ rule.is_usb = dev.is_usb
    /\ ~(rule.vendor # "" /\ dev.vendor # rule.vendor)
    /\ ~(rule.vendor_ids # {} /\ dev.vendor \notin rule.vendor_ids)
    /\ ~(rule.device_ids # {} /\ dev.device \notin rule.device_ids)
    /\ ~(rule.device_class # "" /\ dev.device_class # rule.device_class)

\* the tests of match_device without the bus test
RuleMatches_anybus(rule, dev) ==
    /\ rule.kld \notin blacklist
    /\ ~(rule.vendor # "" /\ dev.vendor # rule.vendor)
    /\ ~(rule.vendor_ids # {} /\ dev.vendor \notin rule.vendor_ids)
    /\ ~(rule.device_ids # {} /\ dev.device \notin rule.device_ids)
    /\ ~(rule.device_class # "" /\ dev.device_class # rule.device_class)

\* the chain of "continue" tests of match_device
RuleMatches(rule, dev) ==
    /\ rule.kld \notin blacklist
    /\ rule.is_usb = dev.is_usb
    /\ ~(rule.vendor # "" /\ dev.vendor # rule.vendor)
    /\ ~(rule.vendor_ids # {} /\ dev.vendor \notin rule.vendor_ids)
    /\ ~(rule.device_ids # {} /\ dev.device \notin rule.device_ids)
    /\ ~(rule.device_class # "" /\ dev.device_class # rule.device_class)

\* a matcher that returns the first matching rule in declaration order
match_device_declared(dev) ==
    LET matching_rules == {i \in 1..Len(rules) : RuleMatches(rules[i], dev)}
    IN  IF matching_rules = {} THEN 0
        ELSE CHOOSE i \in matching_rules : \A j \in matching_rules : i <= j

\* min(matching_rules, key=load_order) that takes the last of the smallest
match_device_last(dev) ==
    LET matching_rules == {i \in 1..Len(rules) : RuleMatches(rules[i], dev)}
    IN  IF matching_rules = {} THEN 0
        ELSE CHOOSE i \in matching_rules :
                 \A j \in matching_rules :
                     \/ rules[i].load_order < rules[j].load_order
                     \/ rules[i].load_order = rules[j].load_order /\ j <= i

\* a matcher that passes over the modules that failed to load
match_device_skipfailed(dev) ==
    LET matching_rules == {i \in 1..Len(rules) :
                              RuleMatches(rules[i], dev) /\ rules[i].kld \notin failed_modules}
    IN  IF matching_rules = {} THEN 0
        ELSE CHOOSE i \in matching_rules :
                 \A j \in matching_rules :
                     \/ rules[i].load_order < rules[j].load_order
                     \/ rules[i].load_order = rules[j].load_order /\ i <= j

\* match_device: the index in rules of the rule returned, 0 for None.
\* min() returns the first of the smallest items of matching_rules.
match_device(dev) ==
    LET matching_rules == {i \in 1..Len(rules) : RuleMatches(rules[i], dev)}
    IN  IF matching_rules = {} THEN 0
        ELSE CHOOSE i \in matching_rules :
                 \A j \in matching_rules :
                     \/ rules[i].load_order < rules[j].load_order
                     \/ rules[i].load_order = rules[j].load_order /\ i <= j

\* the rule's list, last first
get_dependencies_reversed(rule) ==
    [i \in 1..Len(rule.dependencies) |->
        rule.dependencies[Len(rule.dependencies) + 1 - i]]

\* get_dependencies: the rule's list, copied
get_dependencies(rule) == rule.dependencies

-----------------------------------------------------------------------------
(* EnhancedDriverDatabase.get_specific_firmware_package *)

\* "sub in name" for the family names the function looks for and the firmware
\* names of the rule table
InName(sub, name) ==
    CASE sub = "iwlwifi" -> name \in {"wifi-firmware-iwlwifi-kmod",
                                      "wifi-firmware-iwlwifi-kmod-ax210",
                                      "wifi-firmware-iwlwifi-kmod-22000",
                                      "wifi-firmware-iwlwifi-kmod-9000",
                                      "wifi-firmware-iwlwifi-kmod-8000",
                                      "wifi-firmware-iwlwifi-kmod-7000"}
      [] sub = "ath10k" -> name = "wifi-firmware-ath10k-kmod"
      [] sub = "ath11k" -> name = "wifi-firmware-ath11k-kmod"
      [] sub = "rtw88" -> name = "wifi-firmware-rtw88-kmod"
      [] sub = "rtw89" -> name = "wifi-firmware-rtw89-kmod"
      [] OTHER -> FALSE

device_firmware_map_iwlwifi ==
    "0x2725" :> "wifi-firmware-iwlwifi-kmod-ax210" @@
    "0x51f0" :> "wifi-firmware-iwlwifi-kmod-ax210" @@
    "0x51f1" :> "wifi-firmware-iwlwifi-kmod-ax210" @@
    "0x54f0" :> "wifi-firmware-iwlwifi-kmod-ax210" @@
    "0x7af0" :> "wifi-firmware-iwlwifi-kmod-ax210" @@
    "0x2723" :> "wifi-firmware-iwlwifi-kmod-22000" @@
    "0x271b" :> "wifi-firmware-iwlwifi-kmod-22000" @@
    "0x271c" :> "wifi-firmware-iwlwifi-kmod-22000" @@
    "0x30dc" :> "wifi-firmware-iwlwifi-kmod-22000" @@
    "0x31dc" :> "wifi-firmware-iwlwifi-kmod-22000" @@
    "0x43f0" :> "wifi-firmware-iwlwifi-kmod-22000" @@
    "0xa0f0" :> "wifi-firmware-iwlwifi-kmod-22000" @@
    "0x9df0" :> "wifi-firmware-iwlwifi-kmod-9000" @@
    "0x02f0" :> "wifi-firmware-iwlwifi-kmod-9000" @@
    "0x06f0" :> "wifi-firmware-iwlwifi-kmod-9000" @@
    "0x34f0" :> "wifi-firmware-iwlwifi-kmod-9000" @@
    "0x24fd" :> "wifi-firmware-iwlwifi-kmod-8000" @@
    "0x24fb" :> "wifi-firmware-iwlwifi-kmod-8000" @@
    "0x3165" :> "wifi-firmware-iwlwifi-kmod-8000" @@
    "0x3166" :> "wifi-firmware-iwlwifi-kmod-8000" @@
    "0x095a" :> "wifi-firmware-iwlwifi-kmod-7000" @@
    "0x095b" :> "wifi-firmware-iwlwifi-kmod-7000" @@
    "0x24f3" :> "wifi-firmware-iwlwifi-kmod-7000" @@
    "0x24f4" :> "wifi-firmware-iwlwifi-kmod-7000" @@
    "0x24f5" :> "wifi-firmware-iwlwifi-kmod-7000" @@
    "0x24f6" :> "wifi-firmware-iwlwifi-kmod-7000"

device_firmware_map_ath10k ==
    "0x003c" :> "wifi-firmware-ath10k-kmod-qca988x_hw20" @@
    "0x0041" :> "wifi-firmware-ath10k-kmod-qca6174_hw30" @@
    "0x003e" :> "wifi-firmware-ath10k-kmod-qca6174_hw21" @@
    "0x0040" :> "wifi-firmware-ath10k-kmod-qca99x0_hw20" @@
    "0x0046" :> "wifi-firmware-ath10k-kmod-qca9377_hw10" @@
    "0x0056" :> "wifi-firmware-ath10k-kmod-qca9888_hw20"

device_firmware_map_ath11k ==
    "0x1101" :> "wifi-firmware-ath11k-kmod-qca6390_hw20" @@
    "0x1103" :> "wifi-firmware-ath11k-kmod-wcn6855_hw20" @@
    "0x1104" :> "wifi-firmware-ath11k-kmod-qcn9074_hw10"

device_firmware_map_rtw88 ==
    "0x8822" :> "wifi-firmware-rtw88-kmod-rtw8822b" @@
    "0x8821" :> "wifi-firmware-rtw88-kmod-rtw8821c" @@
    "0xb822" :> "wifi-firmware-rtw88-kmod-rtw8822b" @@
    "0xc822" :> "wifi-firmware-rtw88-kmod-rtw8822c" @@
    "0x8723" :> "wifi-firmware-rtw88-kmod-rtw8723d" @@
    "0xb723" :> "wifi-firmware-rtw88-kmod-rtw8703b"

device_firmware_map_rtw89 ==
    "0x8852" :> "wifi-firmware-rtw89-kmod-rtw8852a" @@
    "0x8851" :> "wifi-firmware-rtw89-kmod-rtw8851b" @@
    "0xc852" :> "wifi-firmware-rtw89-kmod-rtw8852c" @@
    "0xc851" :> "wifi-firmware-rtw89-kmod-rtw8852b"

\* a resolver that always answers the rule's own firmware
get_specific_firmware_package_generic(dev, rule) ==
    IF rule.firmware = "" THEN None ELSE Some(rule.firmware)

\* the chain of tests, each returning when its map holds the device id
get_specific_firmware_package(dev, rule) ==
    IF rule.firmware = "" THEN None
    ELSE IF /\ rule.vendor = "0x8086" /\ InName("iwlwifi", rule.firmware)
            /\ dev.device \in DOMAIN device_firmware_map_iwlwifi
         THEN Some(device_firmware_map_iwlwifi[dev.device])
    ELSE IF /\ rule.vendor = "0x168c" /\ InName("ath10k", rule.firmware)
            /\ dev.device \in DOMAIN device_firmware_map_ath10k
         THEN Some(device_firmware_map_ath10k[dev.device])
    ELSE IF /\ rule.vendor = "0x17cb" /\ InName("ath11k", rule.firmware)
            /\ dev.device \in DOMAIN device_firmware_map_ath11k
         THEN Some(device_firmware_map_ath11k[dev.device])
    ELSE IF /\ rule.vendor = "0x10ec" /\ InName("rtw88", rule.firmware)
            /\ dev.device \in DOMAIN device_firmware_map_rtw88
         THEN Some(device_firmware_map_rtw88[dev.device])
    ELSE IF /\ rule.vendor = "0x10ec" /\ InName("rtw89", rule.firmware)
            /\ dev.device \in DOMAIN device_firmware_map_rtw89
         THEN Some(device_firmware_map_rtw89[dev.device])
    ELSE Some(rule.firmware)

-----------------------------------------------------------------------------
(* AdvancedNetworkManager: loading one module, through the command cache *)

KldstatCmd(module) == <<"kldstat -n", module>>
KldloadCmd(module) == <<"kldload", module>>

\* _load_single_module(module).  stat and load are what the two commands do if
\* they run: "raise" (time out or fail to start), or the command's outcome.
\* A result found in the cache is used and the command does not run.
LoadSingleModule(module, stat, load) ==
    LET statCached == KldstatCmd(module) \in DOMAIN cache
        statRaised == ~statCached /\ stat = "raise"
        seenLoaded == IF statCached THEN cache[KldstatCmd(module)]
                      ELSE IF statRaised THEN FALSE ELSE module \in kld
        cache1 == IF statCached \/ statRaised THEN cache
                  ELSE DictPut(cache, KldstatCmd(module), module \in kld)
        loadCached == KldloadCmd(module) \in DOMAIN cache1
        loadRaised == ~loadCached /\ load = "raise"
        \* kldload of a module the kernel already holds exits non-zero
        loadOk == IF loadCached THEN cache1[KldloadCmd(module)]
                  ELSE ~loadRaised /\ load = "ok" /\ module \notin kld
    IN  /\ loads < MaxLoads
        /\ loads' = loads + 1
        /\ IF seenLoaded
           THEN /\ cache' = cache1
                /\ UNCHANGED <<loaded_modules, failed_modules, kld>>
           ELSE /\ cache' = IF loadCached \/ loadRaised THEN cache1
                            ELSE DictPut(cache1, KldloadCmd(module), loadOk)
                /\ kld' = IF loadOk /\ ~loadCached THEN kld \cup {module} ELSE kld
                /\ loaded_modules' = IF loadOk THEN loaded_modules \cup {module}
                                     ELSE loaded_modules
                /\ failed_modules' = IF loadOk THEN failed_modules
                                     ELSE failed_modules \cup {module}
        /\ UNCHANGED <<rules, device, matched>>

CommandOutcomes == {"ok", "fail", "raise"}

-----------------------------------------------------------------------------
(* The same code as operators on the manager's state, for a batch of devices. *)
(* m is [cache, kld, loaded_modules, failed_modules, faults]: the command     *)
(* cache, the modules the kernel holds, the two sets of the manager and the   *)
(* number of commands that ran and did not end well.                          *)

PkgInfoCmd(package) == <<"pkg info", package>>
PkgInstallCmd(package) == <<"pkg install -y", package>>

\* CommandRunner.run: a cached result is returned; otherwise the command runs,
\* raises (time-out, failure to start) or completes with value, which is cached
run(c, cmd, outcome, value) ==
    IF cmd \in DOMAIN c
    THEN [cache |-> c, raised |-> FALSE, value |-> c[cmd], ran |-> FALSE]
    ELSE IF outcome = "raise"
    THEN [cache |-> c, raised |-> TRUE, value |-> FALSE, ran |-> TRUE]
    ELSE [cache |-> DictPut(c, cmd, value), raised |-> FALSE, value |-> value, ran |-> TRUE]

\* _is_module_loaded: "module in result.stdout", False when run raises
_is_module_loaded(m, module, stat) ==
    LET r == run(m.cache, KldstatCmd(module), stat, module \in m.kld)
    IN  [m |-> [m EXCEPT !.cache = r.cache,
                         !.faults = IF r.raised THEN @ + 1 ELSE @],
         value |-> ~r.raised /\ r.value]

\* a load that runs kldload whatever kldstat reported
_load_single_module_always(m, module, stat, load) ==
    LET a == _is_module_loaded(m, module, stat)
        r == run(a.m.cache, KldloadCmd(module), load,
                 load = "ok" /\ module \notin a.m.kld)
        success == ~r.raised /\ r.value
    IN  [m |-> [a.m EXCEPT
                  !.cache = r.cache,
                  !.kld = IF r.ran /\ success THEN @ \cup {module} ELSE @,
                  !.loaded_modules = IF success THEN @ \cup {module} ELSE @,
                  !.failed_modules = IF success THEN @ ELSE @ \cup {module},
                  !.faults = IF r.ran /\ ~success THEN @ + 1 ELSE @],
         result |-> success, reported |-> a.value,
         kldload |-> IF r.ran THEN "run" ELSE "cached"]

\* _load_single_module: True without kldload when the module is reported
\* loaded; otherwise kldload, whose exit status or exception decides
_load_single_module(m, module, stat, load) ==
    LET a == _is_module_loaded(m, module, stat)
        \* kldload of a module the kernel already holds exits non-zero
        r == run(a.m.cache, KldloadCmd(module), load,
                 load = "ok" /\ module \notin a.m.kld)
        success == ~r.raised /\ r.value
    IN  IF a.value
        THEN [m |-> a.m, result |-> TRUE, reported |-> TRUE, kldload |-> "none"]
        ELSE [m |-> [a.m EXCEPT
                       !.cache = r.cache,
                       !.kld = IF r.ran /\ success THEN @ \cup {module} ELSE @,
                       !.loaded_modules = IF success THEN @ \cup {module} ELSE @,
                       !.failed_modules = IF success THEN @ ELSE @ \cup {module},
                       !.faults = IF r.ran /\ ~success THEN @ + 1 ELSE @],
              result |-> success, reported |-> FALSE,
              kldload |-> IF r.ran THEN "run" ELSE "cached"]

\* an installation that runs pkg install also for a package pkg info found
_install_firmware_package_reinstall(m, package, info, install) ==
    LET a == run(m.cache, PkgInfoCmd(package), info, info = "ok")
        b == run(a.cache, PkgInstallCmd(package), install, install = "ok")
    IN  IF a.raised
        THEN [m |-> [m EXCEPT !.faults = @ + 1], result |-> FALSE,
              already |-> FALSE, install |-> "none"]
        ELSE [m |-> [m EXCEPT !.cache = b.cache,
                              !.faults = IF b.ran /\ (b.raised \/ ~b.value)
                                         THEN @ + 1 ELSE @],
              result |-> ~b.raised /\ b.value,
              already |-> a.value, install |-> IF b.ran THEN "run" ELSE "cached"]

\* _install_firmware_package: True when pkg info finds the package, otherwise
\* the exit status of pkg install; False when a command raises
_install_firmware_package(m, package, info, install) ==
    LET a == run(m.cache, PkgInfoCmd(package), info, info = "ok")
        b == run(a.cache, PkgInstallCmd(package), install, install = "ok")
    IN  IF a.raised
        THEN [m |-> [m EXCEPT !.faults = @ + 1], result |-> FALSE,
              already |-> FALSE, install |-> "none"]
        ELSE IF a.value
        THEN [m |-> [m EXCEPT !.cache = a.cache], result |-> TRUE,
              already |-> TRUE, install |-> "none"]
        ELSE [m |-> [m EXCEPT !.cache = b.cache,
                              !.faults = IF b.ran /\ (b.raised \/ ~b.value)
                                         THEN @ + 1 ELSE @],
              result |-> ~b.raised /\ b.value,
              already |-> FALSE, install |-> IF b.ran THEN "run" ELSE "cached"]

\* _classify_device: the type discovery gives a descriptor
_classify_device(dev) ==
    IF dev.vendor \in {"0x168c", "0x14e4"}
    THEN (IF dev.is_usb THEN "usb_wifi" ELSE "wifi")
    ELSE IF dev.vendor = "0x8086"
            /\ dev.device \in {"0x095a", "0x095b", "0x3165", "0x3166", "0x24f3", "0x2723"}
    THEN (IF dev.is_usb THEN "usb_wifi" ELSE "wifi")
    ELSE (IF dev.is_usb THEN "usb_ethernet" ELSE "ethernet")

\* a call of match_device for the descriptor
MatchDevice ==
    /\ Len(matched) < MaxMatches
    /\ matched' = Append(matched, [rule |-> match_device(device), loads |-> loads])
    /\ UNCHANGED <<rules, loaded_modules, failed_modules, kld, cache, device, loads>>

\* the modules a resolution of the descriptor loads: the matched rule's
\* prerequisites and its own
ModulesOf(dev) ==
    IF match_device(dev) = 0 THEN {}
    ELSE {rules[match_device(dev)].kld}
         \cup {get_dependencies(rules[match_device(dev)])[i] :
                  i \in 1..Len(get_dependencies(rules[match_device(dev)]))}

-----------------------------------------------------------------------------
(* AdvancedNetworkManager._load_drivers_for_devices, a device step at a time *)

Manager ==
    [cache |-> cache, kld |-> kld, loaded_modules |-> loaded_modules,
     failed_modules |-> failed_modules, faults |-> cmdfaults]

SetManager(m) ==
    /\ m.faults <= MaxCmdFaults
    /\ cache' = m.cache
    /\ kld' = m.kld
    /\ loaded_modules' = m.loaded_modules
    /\ failed_modules' = m.failed_modules
    /\ cmdfaults' = m.faults

NoFrame == [i |-> 1, rule |-> 0, dep |-> 1]

EmptyResults == [successful |-> <<>>, failed |-> <<>>, firmware_installed |-> <<>>]

\* the entry of results["successful"] and results["failed"]
DriverResult(dev, rule) == [driver |-> rule.kld, device_id |-> <<dev.vendor, dev.device>>]

\* the positions of the devices of the given types, in batch order
DevicesOfType(types) ==
    SelectSeq([i \in 1..Len(devices) |-> i],
              LAMBDA i : _classify_device(devices[i]) \in types)

\* ethernet_devices, then wifi_devices
SortDevices ==
    DevicesOfType({"ethernet", "usb_ethernet"}) \o DevicesOfType({"wifi", "usb_wifi"})

StartBatch ==
    /\ bpc = "start"
    /\ queue' = SortDevices
    /\ frame' = NoFrame
    /\ bpc' = "device"
    /\ UNCHANGED <<rules, loaded_modules, failed_modules, kld, cache, cmdfaults,
                   devices, results, trace,
                   enable_boot_config, enable_dhcp_config, interfaces, config_changes>>

\* the for loops are over
FinishBatch ==
    /\ bpc = "device"
    /\ frame.i > Len(queue)
    /\ bpc' = "done"
    /\ UNCHANGED <<rules, loaded_modules, failed_modules, kld, cache, cmdfaults,
                   devices, queue, frame, results, trace,
                   enable_boot_config, enable_dhcp_config, interfaces, config_changes>>

\* a step that reports a device without a rule as a failed load
LoadDriverForDevice_nomatchfails ==
    /\ bpc = "device"
    /\ frame.i <= Len(queue)
    /\ LET d == queue[frame.i]
           r == match_device(devices[d])
           matchEvent == [op |-> "match", dev |-> d, rule |-> r]
       IN  IF r = 0
           THEN /\ trace' = Append(trace, matchEvent)
                /\ frame' = [NoFrame EXCEPT !.i = frame.i + 1]
                /\ results' = [results EXCEPT !.failed =
                                  Append(@, [driver |-> "", device_id |->
                                               <<devices[d].vendor, devices[d].device>>])]
                /\ UNCHANGED bpc
           ELSE IF rules[r].kld \in failed_modules
           THEN /\ trace' = trace \o <<matchEvent,
                                       [op |-> "skip", dev |-> d, module |-> rules[r].kld],
                                       [op |-> "outcome", dev |-> d, outcome |-> "failed"]>>
                /\ results' = [results EXCEPT
                                  !.failed = Append(@, DriverResult(devices[d], rules[r]))]
                /\ frame' = [NoFrame EXCEPT !.i = frame.i + 1]
                /\ UNCHANGED bpc
           ELSE /\ trace' = Append(trace, matchEvent)
                /\ frame' = [i |-> frame.i, rule |-> r, dep |-> 1]
                /\ bpc' = IF get_dependencies(rules[r]) = <<>> THEN "main" ELSE "deps"
                /\ UNCHANGED results
    /\ UNCHANGED <<rules, loaded_modules, failed_modules, kld, cache, cmdfaults,
                   devices, queue,
                   enable_boot_config, enable_dhcp_config, interfaces, config_changes>>

\* _load_driver_for_device up to the first command: match_device, and the
\* test of failed_modules that opens _load_module_with_dependencies
LoadDriverForDevice ==
    /\ bpc = "device"
    /\ frame.i <= Len(queue)
    /\ LET d == queue[frame.i]
           r == match_device(devices[d])
           matchEvent == [op |-> "match", dev |-> d, rule |-> r]
       IN  IF r = 0
           THEN /\ trace' = Append(trace, matchEvent)
                /\ frame' = [NoFrame EXCEPT !.i = frame.i + 1]
                /\ UNCHANGED <<bpc, results>>
           ELSE IF rules[r].kld \in failed_modules
           THEN /\ trace' = trace \o <<matchEvent,
                                       [op |-> "skip", dev |-> d, module |-> rules[r].kld],
                                       [op |-> "outcome", dev |-> d, outcome |-> "failed"]>>
                /\ results' = [results EXCEPT
                                  !.failed = Append(@, DriverResult(devices[d], rules[r]))]
                /\ frame' = [NoFrame EXCEPT !.i = frame.i + 1]
                /\ UNCHANGED bpc
           ELSE /\ trace' = Append(trace, matchEvent)
                /\ frame' = [i |-> frame.i, rule |-> r, dep |-> 1]
                /\ bpc' = IF get_dependencies(rules[r]) = <<>> THEN "main" ELSE "deps"
                /\ UNCHANGED results
    /\ UNCHANGED <<rules, loaded_modules, failed_modules, kld, cache, cmdfaults,
                   devices, queue,
                   enable_boot_config, enable_dhcp_config, interfaces, config_changes>>

\* one turn of "for dep in get_dependencies(rule)"
LoadDependency(stat1, stat2, load) ==
    /\ bpc = "deps"
    /\ LET d == queue[frame.i]
           deps == get_dependencies(rules[frame.rule])
           dep == deps[frame.dep]
           a == _is_module_loaded(Manager, dep, stat1)
           b == _load_single_module(a.m, dep, stat2, load)
       IN  /\ IF a.value
              THEN /\ SetManager(a.m)
                   /\ trace' = Append(trace, [op |-> "loaded", dev |-> d, module |-> dep])
              ELSE /\ SetManager(b.m)
                   /\ trace' = Append(trace,
                          [op |-> "load", dev |-> d, module |-> dep, role |-> "dep",
                           reported |-> b.reported, kldload |-> b.kldload,
                           result |-> b.result,
                           was_failed |-> dep \in failed_modules])
           /\ frame' = [frame EXCEPT !.dep = @ + 1]
           /\ bpc' = IF frame.dep = Len(deps) THEN "main" ELSE "deps"
    /\ UNCHANGED <<rules, devices, queue, results,
                   enable_boot_config, enable_dhcp_config, interfaces, config_changes>>

\* "return self._load_single_module(rule.kld)" and what _load_driver_for_device
\* does with the answer
LoadMainModule(stat, load) ==
    /\ bpc = "main"
    /\ LET d == queue[frame.i]
           rule == rules[frame.rule]
           b == _load_single_module(Manager, rule.kld, stat, load)
       IN  /\ SetManager(b.m)
           /\ trace' = trace \o
                  <<[op |-> "load", dev |-> d, module |-> rule.kld, role |-> "main",
                     reported |-> b.reported, kldload |-> b.kldload,
                     result |-> b.result,
                     was_failed |-> rule.kld \in failed_modules],
                    [op |-> "outcome", dev |-> d,
                     outcome |-> IF b.result THEN "successful" ELSE "failed"]>>
           /\ results' = IF b.result
                         THEN [results EXCEPT
                                 !.successful = Append(@, DriverResult(devices[d], rule))]
                         ELSE [results EXCEPT
                                 !.failed = Append(@, DriverResult(devices[d], rule))]
           /\ IF b.result /\ rule.firmware # ""
              THEN bpc' = "firmware" /\ UNCHANGED frame
              ELSE bpc' = "device" /\ frame' = [NoFrame EXCEPT !.i = frame.i + 1]
    /\ UNCHANGED <<rules, devices, queue,
                   enable_boot_config, enable_dhcp_config, interfaces, config_changes>>

\* what a call of _install_firmware_package for a device did
FirmwareEvent(d, package, r) ==
    [op |-> "firmware", dev |-> d, package |-> package, result |-> r.result,
     already |-> r.already, install |-> r.install]

\* a firmware step that reports the driver failed when no package installs
InstallFirmware_failsdriver(info1, install1, info2, install2) ==
    /\ bpc = "firmware"
    /\ LET d == queue[frame.i]
           rule == rules[frame.rule]
           specific_firmware == get_specific_firmware_package(devices[d], rule)[1]
           a == _install_firmware_package(Manager, specific_firmware, info1, install1)
           b == _install_firmware_package(a.m, rule.firmware, info2, install2)
       IN  IF a.result
           THEN /\ SetManager(a.m)
                /\ trace' = Append(trace, FirmwareEvent(d, specific_firmware, a))
                /\ results' = [results EXCEPT !.firmware_installed =
                                  Append(@, [device |-> d, firmware |-> specific_firmware])]
           ELSE IF specific_firmware # rule.firmware
           THEN \* the fault budget counts the two calls of one device once
                /\ SetManager([b.m EXCEPT !.faults = IF @ > Manager.faults
                                                      THEN Manager.faults + 1 ELSE @])
                /\ trace' = trace \o <<FirmwareEvent(d, specific_firmware, a),
                                        FirmwareEvent(d, rule.firmware, b)>>
                /\ results' = IF b.result
                              THEN [results EXCEPT !.firmware_installed =
                                      Append(@, [device |-> d, firmware |-> rule.firmware])]
                              ELSE [results EXCEPT
                                      !.successful = SubSeq(@, 1, Len(@) - 1),
                                      !.failed = Append(@, DriverResult(devices[d], rule))]
           ELSE /\ SetManager(a.m)
                /\ trace' = Append(trace, FirmwareEvent(d, specific_firmware, a))
                /\ UNCHANGED results
    /\ bpc' = "device"
    /\ frame' = [NoFrame EXCEPT !.i = frame.i + 1]
    /\ UNCHANGED <<rules, devices, queue,
                   enable_boot_config, enable_dhcp_config, interfaces, config_changes>>

\* the firmware of a loaded driver: the specific package, then the rule's own
InstallFirmware(info1, install1, info2, install2) ==
    /\ bpc = "firmware"
    /\ LET d == queue[frame.i]
           rule == rules[frame.rule]
           specific_firmware == get_specific_firmware_package(devices[d], rule)[1]
           a == _install_firmware_package(Manager, specific_firmware, info1, install1)
           b == _install_firmware_package(a.m, rule.firmware, info2, install2)
       IN  IF a.result
           THEN /\ SetManager(a.m)
                /\ trace' = Append(trace, FirmwareEvent(d, specific_firmware, a))
                /\ results' = [results EXCEPT !.firmware_installed =
                                  Append(@, [device |-> d, firmware |-> specific_firmware])]
           ELSE IF specific_firmware # rule.firmware
           THEN \* the fault budget counts the two calls of one device once
                /\ SetManager([b.m EXCEPT !.faults = IF @ > Manager.faults
                                                      THEN Manager.faults + 1 ELSE @])
                /\ trace' = trace \o <<FirmwareEvent(d, specific_firmware, a),
                                        FirmwareEvent(d, rule.firmware, b)>>
                /\ results' = IF b.result
                              THEN [results EXCEPT !.firmware_installed =
                                      Append(@, [device |-> d, firmware |-> rule.firmware])]
                              ELSE results
           ELSE /\ SetManager(a.m)
                /\ trace' = Append(trace, FirmwareEvent(d, specific_firmware, a))
                /\ UNCHANGED results
    /\ bpc' = "device"
    /\ frame' = [NoFrame EXCEPT !.i = frame.i + 1]
    /\ UNCHANGED <<rules, devices, queue,
                   enable_boot_config, enable_dhcp_config, interfaces, config_changes>>

-----------------------------------------------------------------------------
(* run_comprehensive_discovery, step 6: _configure_system_files *)

SuccessfulDrivers == [i \in 1..Len(results.successful) |-> results.successful[i].driver]
FirmwareInstalled ==
    [i \in 1..Len(results.firmware_installed) |-> results.firmware_installed[i].firmware]

LoaderEntries == generate_loader_conf_entries(SuccessfulDrivers, FirmwareInstalled)
RcEntries == generate_rc_conf_entries(interfaces, TRUE)

\* "if enable_boot_config: ... if loader_entries: add_loader_conf_entries(...)"
CallsLoader ==
    /\ enable_boot_config \/ enable_dhcp_config
    /\ enable_boot_config
    /\ LoaderEntries # <<>>

\* "if enable_dhcp_config: ... if rc_entries: add_rc_conf_entries(...)"
CallsRc ==
    /\ enable_boot_config \/ enable_dhcp_config
    /\ enable_dhcp_config
    /\ RcEntries # <<>>

ConfigureLoader ==
    /\ bpc = "done"
    /\ IF CallsLoader
       THEN Begin(loader_conf, LoaderEntries) /\ bpc' = "loader"
       ELSE bpc' = "loader_done" /\ UNCHANGED syncVars
    /\ UNCHANGED config_changes

\* a configuration that gives up after a file that could not be written
ConfigureRc_unlessfailed ==
    /\ bpc = "loader_done"
    /\ IF CallsRc /\ ~(loader_conf \in DOMAIN config_changes /\ ~config_changes[loader_conf])
       THEN Begin(rc_conf, RcEntries) /\ bpc' = "rc"
       ELSE bpc' = "end" /\ UNCHANGED syncVars
    /\ UNCHANGED config_changes

ConfigureRc ==
    /\ bpc = "loader_done"
    /\ IF CallsRc
       THEN Begin(rc_conf, RcEntries) /\ bpc' = "rc"
       ELSE bpc' = "end" /\ UNCHANGED syncVars
    /\ UNCHANGED config_changes

\* the call returns: changes[...] = {"success": success, ...}
ConfigureReturn ==
    /\ bpc \in {"loader", "rc"}
    /\ Return
    /\ config_changes' = DictPut(config_changes, call.target, call.result = Some(TRUE))
    /\ bpc' = IF bpc = "loader" THEN "loader_done" ELSE "end"

\* a step inside add_loader_conf_entries / add_rc_conf_entries
ConfigureStep ==
    /\ bpc \in {"loader", "rc"}
    /\ Backup \/ ReadFilter \/ WriteOpen \/ TmpWrite \/ Rename
    /\ UNCHANGED <<bpc, config_changes>>

-----------------------------------------------------------------------------
(* _discover_interfaces_comprehensive: "ifconfig -l", one "ifconfig <name>"   *)
(* per name through run_parallel, then the loop over zip(names, results).     *)
(* The output of "ifconfig <name>" is what the parser looks for in it: the    *)
(* address after "ether ", if any, and whether it mentions "wireless".        *)

max_workers == 4

IfconfigCmd(name) == <<"ifconfig", name>>

\* subprocess.CompletedProcess
CompletedProcess(args, returncode, stdout) ==
    [args |-> args, returncode |-> returncode, stdout |-> stdout]

EmptyOutput == [ether |-> None, wireless |-> FALSE]

\* what the system prints for an interface: loopback has no "ether" line
IfconfigOutput(name) ==
    [ether |-> IF name = "lo0" THEN None ELSE Some(<<"mac", name>>),
     wireless |-> name = "wlan0"]

\* name.startswith("lo"), name.startswith("wlan")
StartsWithLo(name) == name \in {"lo0"}
StartsWithWlan(name) == name \in {"wlan0"}

\* _parse_interface_details: None without "ether "; the name given, the
\* address and the type read from the output
_parse_interface_details(name, ifconfig_output) ==
    IF ifconfig_output.ether = None THEN None
    ELSE Some([name |-> name,
               mac_address |-> ifconfig_output.ether[1],
               interface_type |-> IF StartsWithWlan(name) \/ ifconfig_output.wireless
                                  THEN "wifi" ELSE "ethernet"])

\* for name, result in zip(interface_names, interface_results): ...
RECURSIVE ZipInterfaces(_, _)
ZipInterfaces(interface_names, interface_results) ==
    IF interface_names = <<>> \/ interface_results = <<>> THEN <<>>
    ELSE LET name == Head(interface_names)
             result == Head(interface_results)
             rest == ZipInterfaces(Tail(interface_names), Tail(interface_results))
             interface == _parse_interface_details(name, result.stdout)
         IN  IF StartsWithLo(name) THEN rest
             ELSE IF result.returncode # 0 THEN rest
             ELSE IF interface # None THEN <<interface[1]>> \o rest
             ELSE rest

NoPool ==
    [pc |-> "off", interface_names |-> <<>>, started |-> 0, running |-> {},
     results |-> <<>>, interfaces |-> <<>>]

\* result = self.cmd_runner.run("ifconfig -l"); a command that raises ends
\* the discovery with no interface, one that fails prints no name
ListInterfaces(names, outcome) ==
    /\ pool.pc = "list"
    /\ pool' = IF outcome = "raise"
               THEN [pool EXCEPT !.pc = "done"]
               ELSE [pool EXCEPT !.pc = "parallel",
                                 !.interface_names = IF outcome = "ok" THEN names ELSE <<>>]

\* a worker of the pool takes the next submitted command
StartWorker ==
    /\ pool.pc = "parallel"
    /\ pool.started < Len(pool.interface_names)
    /\ Cardinality(pool.running) < max_workers
    /\ pool' = [pool EXCEPT !.started = @ + 1, !.running = @ \cup {pool.started + 1}]

\* run_parallel: "for future in as_completed(...)" hands over the command
\* that completes next; its result, or the dummy failed result when it
\* raised, is appended to results
Complete(i, outcome) ==
    /\ pool.pc = "parallel"
    /\ i \in pool.running
    /\ LET cmd == IfconfigCmd(pool.interface_names[i])
           result == IF outcome = "ok"
                     THEN CompletedProcess(cmd, 0, IfconfigOutput(pool.interface_names[i]))
                     ELSE CompletedProcess(cmd, 1, EmptyOutput)
       IN  pool' = [pool EXCEPT !.running = @ \ {i}, !.results = Append(@, result)]

\* run_parallel returns; the loop over zip(interface_names, interface_results)
Zip ==
    /\ pool.pc = "parallel"
    /\ pool.started = Len(pool.interface_names)
    /\ pool.running = {}
    /\ pool' = [pool EXCEPT !.pc = "done",
                            !.interfaces = ZipInterfaces(pool.interface_names, pool.results)]

-----------------------------------------------------------------------------
(* The rule tables and descriptors a matcher run starts from *)

SmallRule(k, v, lo) ==
    [kld |-> k, vendor |-> v, vendor_ids |-> {}, device_ids |-> {},
     device_class |-> "", is_usb |-> FALSE, firmware |-> "",
     device_type |-> "ethernet", load_order |-> lo, dependencies |-> <<>>]

SmallRules ==
    {SmallRule(k, v, lo) : k \in {"if_x", "if_iwn"}, v \in {"", "0x0001"}, lo \in {10, 20}}

SmallTables == {t \in SeqsUpTo(SmallRules, MaxRules) : t # <<>>}

NetworkDevice(v, d, c, usb) ==
    [vendor |-> v, device |-> d, device_class |-> c, is_usb |-> usb]

SmallDevices ==
    {NetworkDevice(v, "0x000a", "", usb) : v \in {"0x0001", "0x0002"}, usb \in BOOLEAN}

ShippedVendors ==
    UNION {{_load_comprehensive_rules[i].vendor} \cup _load_comprehensive_rules[i].vendor_ids :
              i \in 1..Len(_load_comprehensive_rules)} \ {""}

\* the device ids the rules for a vendor list
ShippedDeviceIds(v) ==
    UNION {_load_comprehensive_rules[i].device_ids :
              i \in {j \in 1..Len(_load_comprehensive_rules) :
                        \/ _load_comprehensive_rules[j].vendor = v
                        \/ v \in _load_comprehensive_rules[j].vendor_ids}}

\* The descriptors discovery can produce, up to the fields match_device reads:
\* every vendor of the table and an unknown one, each with every device id a
\* rule lists for it and an unlisted one; a PCI descriptor carries the class of
\* a network controller, a USB descriptor the network class, another or none.
ShippedDevices ==
    UNION {{NetworkDevice(v, d, c, usb) :
               d \in ShippedDeviceIds(v) \cup {"0xffff"},
               c \in {"", "0x02", "0x0200"}, usb \in BOOLEAN} :
           v \in ShippedVendors \cup {"0xffff"}}

-----------------------------------------------------------------------------
(* The files a run may start from *)

InitialLoaderFiles ==
    { Missing,
      NewFile(<<>>),
      NewFile(<<HASH, SP, "drivers", NL,
                "a", EQ, DQ, "N", DQ, NL,
                NL,
                "junk", NL,
                "b", EQ, "Y", NL>>),
      NewFile(<<"a", EQ, DQ, "Y", DQ, NL,
                "a", EQ, DQ, "N", DQ, NL>>),
      NewFile(<<SP, "a", SP, EQ, SP, DQ, "N", DQ, SP, NL,
                HASH, "a", EQ, DQ, "Y", DQ, NL,
                "b", EQ, DQ, "Y", DQ>>),
      [exists |-> TRUE, readable |-> FALSE, data |-> <<"a", EQ, DQ, "N", DQ, NL>>] }

InitialRcFiles ==
    { NewFile(<<"b", EQ, DQ, "N", DQ, NL, "junk">>) }

InitLoad ==
    /\ loaded_modules = {}
    /\ failed_modules = {}
    /\ kld = {}
    /\ cache = EmptyDict
    /\ matched = <<>>
    /\ loads = 0

\* no batch is run
InitBatch ==
    /\ devices = <<>>
    /\ queue = <<>>
    /\ bpc = "off"
    /\ frame = NoFrame
    /\ results = EmptyResults
    /\ trace = <<>>
    /\ cmdfaults = 0
    /\ enable_boot_config = FALSE
    /\ enable_dhcp_config = FALSE
    /\ interfaces = <<>>
    /\ config_changes = EmptyDict
    /\ pool = NoPool

InitSync ==
    /\ backups = EmptyDict
    /\ changes = <<>>
    /\ now = 0
    /\ pc = "idle"
    /\ call = NoCall
    /\ lastOk = [p \in Targets |-> None]
    /\ calls = 0
    /\ faults = 0

Init ==
    /\ fs \in {[p \in Paths |-> IF p = loader_conf THEN l ELSE IF p = rc_conf THEN r ELSE Missing] :
                  l \in InitialLoaderFiles, r \in InitialRcFiles}
    /\ InitSync
    /\ desired \in EntryLists
    /\ InitLoad
    /\ rules = _load_comprehensive_rules
    /\ device = NetworkDevice("0xffff", "0xffff", "", FALSE)
    /\ resolved = None
    /\ InitBatch

Next ==
    \/ /\ \E path \in Targets : Begin(path, desired)
       /\ UNCHANGED <<loadVars, otherVars>>
    \/ Backup /\ UNCHANGED <<loadVars, otherVars>>
    \/ ReadFilter /\ UNCHANGED <<loadVars, otherVars>>
    \/ WriteOpen /\ UNCHANGED <<loadVars, otherVars>>
    \/ TmpWrite /\ UNCHANGED <<loadVars, otherVars>>
    \/ Rename /\ UNCHANGED <<loadVars, otherVars>>
    \/ Return /\ UNCHANGED <<loadVars, otherVars>>

Spec == Init /\ [][Next]_vars

\* a matcher run: one rule table, one descriptor, calls of match_device and
\* module loads in any order
MatchInit ==
    /\ fs = [p \in Paths |-> Missing]
    /\ InitSync
    /\ desired = <<>>
    /\ InitLoad
    /\ \/ rules = _load_comprehensive_rules /\ device \in ShippedDevices
       \/ rules \in SmallTables /\ device \in SmallDevices
    /\ resolved = None
    /\ InitBatch

MatchNext ==
    \/ MatchDevice /\ UNCHANGED <<syncVars, otherVars>>
    \/ /\ \E module \in ModulesOf(device), stat \in CommandOutcomes, load \in CommandOutcomes :
              LoadSingleModule(module, stat, load)
       /\ UNCHANGED <<syncVars, otherVars>>

MatchSpec == MatchInit /\ [][MatchNext]_vars

\* the device ids of the firmware maps kept for a vendor
FirmwareDeviceIds(v) ==
    (IF v = "0x8086" THEN DOMAIN device_firmware_map_iwlwifi ELSE {})
    \cup (IF v = "0x168c" THEN DOMAIN device_firmware_map_ath10k ELSE {})
    \cup (IF v = "0x17cb" THEN DOMAIN device_firmware_map_ath11k ELSE {})
    \cup (IF v = "0x10ec"
          THEN DOMAIN device_firmware_map_rtw88 \cup DOMAIN device_firmware_map_rtw89
          ELSE {})

\* the descriptors of the rule table, and each vendor with the device ids of
\* its firmware maps
FirmwareDevices ==
    ShippedDevices
    \cup UNION {{NetworkDevice(v, d, "", usb) : d \in FirmwareDeviceIds(v), usb \in BOOLEAN} :
                   v \in ShippedVendors}

\* _load_driver_for_device, lines 1590 and 1606-1607: the firmware of the rule
\* matched for the descriptor
ResolveMatched ==
    /\ resolved = None
    /\ match_device(device) # 0
    /\ resolved' = Some([rule |-> match_device(device), by |-> "match",
                         firmware |-> get_specific_firmware_package(
                                          device, rules[match_device(device)])])
    /\ UNCHANGED <<rules, loaded_modules, failed_modules, kld, cache, device, matched, loads>>

\* get_specific_firmware_package called for the descriptor with a rule
ResolveFirmware(r) ==
    /\ resolved = None
    /\ resolved' = Some([rule |-> r, by |-> "call",
                         firmware |-> get_specific_firmware_package(device, rules[r])])
    /\ UNCHANGED <<rules, loaded_modules, failed_modules, kld, cache, device, matched, loads>>

\* a resolver run: the shipped table, one descriptor, one resolution
FirmwareInit ==
    /\ fs = [p \in Paths |-> Missing]
    /\ InitSync
    /\ desired = <<>>
    /\ InitLoad
    /\ rules = _load_comprehensive_rules
    /\ device \in FirmwareDevices
    /\ resolved = None
    /\ InitBatch

FirmwareNext ==
    \/ ResolveMatched /\ UNCHANGED <<syncVars, batchVars, pool>>
    \/ /\ \E r \in 1..Len(rules) : ResolveFirmware(r)
       /\ UNCHANGED <<syncVars, batchVars, pool>>

FirmwareSpec == FirmwareInit /\ [][FirmwareNext]_vars

\* descriptors for a batch: Intel ethernet, Intel AX210 and AX200 WiFi (one
\* module, two rules), Broadcom ethernet, Atheros WiFi, an unknown card and a
\* USB ethernet adapter
BatchDevices ==
    { NetworkDevice("0x8086", "0x10d3", "0x0200", FALSE),
      NetworkDevice("0x8086", "0x2725", "0x0200", FALSE),
      NetworkDevice("0x8086", "0x2723", "0x0200", FALSE),
      NetworkDevice("0x14e4", "0xffff", "0x0200", FALSE),
      NetworkDevice("0x168c", "0x003c", "0x0200", FALSE),
      NetworkDevice("0xffff", "0xffff", "0x0200", FALSE),
      NetworkDevice("0x0b95", "0xffff", "0x02", TRUE) }

\* the order in which pciconf, then usbconfig, list these devices
BusOrder ==
    << NetworkDevice("0x8086", "0x2723", "0x0200", FALSE),
       NetworkDevice("0x8086", "0x2725", "0x0200", FALSE),
       NetworkDevice("0x8086", "0x10d3", "0x0200", FALSE),
       NetworkDevice("0x168c", "0x003c", "0x0200", FALSE),
       NetworkDevice("0x14e4", "0xffff", "0x0200", FALSE),
       NetworkDevice("0xffff", "0xffff", "0x0200", FALSE),
       NetworkDevice("0x0b95", "0xffff", "0x02", TRUE) >>

BusPosition(dev) == CHOOSE i \in 1..Len(BusOrder) : BusOrder[i] = dev

\* all_devices = pci_devices + usb_devices: the devices present, each once,
\* in the order they are listed
Batches ==
    {b \in SeqsUpTo(BatchDevices, MaxBatch) :
        \A i, j \in 1..Len(b) : i < j => BusPosition(b[i]) < BusPosition(b[j])}

\* the batches of the runs that go on to _configure_system_files
ConfiguredBatches ==
    {b \in Batches : Len(b) <= 1}
        \cup {<<NetworkDevice("0x8086", "0x2725", "0x0200", FALSE),
                NetworkDevice("0x8086", "0x10d3", "0x0200", FALSE)>>,
              <<NetworkDevice("0x14c3", "0x7915", "0x0200", FALSE)>>}

\* the modules the kernel holds when the run starts
PreloadedModules == {{}, {"if_em", "linuxkpi"}}

BatchInterfaces ==
    { <<>>,
      <<NetworkInterface("em", "0", "ethernet"), NetworkInterface("iwlwifi", "0", "wifi")>> }

BatchFiles ==
    { [p \in Paths |-> Missing],
      [p \in Paths |-> IF p = loader_conf
                       THEN [exists |-> TRUE, readable |-> FALSE,
                             data |-> <<"if_em", "_load", EQ, DQ, "NO", DQ, NL>>]
                       ELSE IF p = rc_conf
                       THEN NewFile(<<"ifconfig_", "em", "0", EQ, DQ, "up", DQ, NL>>)
                       ELSE Missing] }

\* a run of run_comprehensive_discovery from the discovered devices on
BatchInit ==
    /\ InitSync
    /\ desired = <<>>
    /\ rules = _load_comprehensive_rules
    /\ loaded_modules = {}
    /\ failed_modules = {}
    /\ kld \in PreloadedModules
    /\ cache = EmptyDict
    /\ device = NetworkDevice("0xffff", "0xffff", "", FALSE)
    /\ matched = <<>>
    /\ loads = 0
    /\ resolved = None
    /\ queue = <<>>
    /\ bpc = "start"
    /\ frame = NoFrame
    /\ results = EmptyResults
    /\ trace = <<>>
    /\ cmdfaults = 0
    /\ config_changes = EmptyDict
    /\ pool = NoPool
    /\ \/ /\ enable_boot_config = FALSE /\ enable_dhcp_config = FALSE
          /\ interfaces = <<>>
          /\ fs = [p \in Paths |-> Missing]
          /\ devices \in Batches
       \/ /\ enable_boot_config = TRUE /\ enable_dhcp_config = TRUE
          /\ interfaces \in BatchInterfaces
          /\ fs \in BatchFiles
          /\ devices \in ConfiguredBatches

BatchFixed == <<device, matched, loads, resolved, pool>>

BatchNext ==
    \/ StartBatch /\ UNCHANGED <<syncVars, BatchFixed>>
    \/ LoadDriverForDevice /\ UNCHANGED <<syncVars, BatchFixed>>
    \/ /\ \E stat1, stat2 \in {"ok", "raise"}, load \in CommandOutcomes :
              LoadDependency(stat1, stat2, load)
       /\ UNCHANGED <<syncVars, BatchFixed>>
    \/ /\ \E stat \in {"ok", "raise"}, load \in CommandOutcomes :
              LoadMainModule(stat, load)
       /\ UNCHANGED <<syncVars, BatchFixed>>
    \/ /\ \E info1, install1, info2, install2 \in CommandOutcomes :
              InstallFirmware(info1, install1, info2, install2)
       /\ UNCHANGED <<syncVars, BatchFixed>>
    \/ FinishBatch /\ UNCHANGED <<syncVars, BatchFixed>>
    \/ ConfigureLoader /\ UNCHANGED <<loadVars, resolved, pool, devices, queue, frame, results,
                                      trace, cmdfaults, enable_boot_config,
                                      enable_dhcp_config, interfaces>>
    \/ ConfigureStep /\ UNCHANGED <<loadVars, resolved, pool, devices, queue, frame, results,
                                    trace, cmdfaults, enable_boot_config,
                                    enable_dhcp_config, interfaces>>
    \/ ConfigureReturn /\ UNCHANGED <<loadVars, resolved, pool, devices, queue, frame, results,
                                      trace, cmdfaults, enable_boot_config,
                                      enable_dhcp_config, interfaces>>
    \/ ConfigureRc /\ UNCHANGED <<loadVars, resolved, pool, devices, queue, frame, results,
                                  trace, cmdfaults, enable_boot_config,
                                  enable_dhcp_config, interfaces>>

BatchSpec == BatchInit /\ [][BatchNext]_vars

\* the names "ifconfig -l" may print: each interface once
InterfaceNames == {"lo0", "em0", "re0", "wlan0"}
InterfaceLists ==
    {l \in SeqsUpTo(InterfaceNames, MaxIfaces) : \A i, j \in 1..Len(l) : i # j => l[i] # l[j]}

\* a call of _discover_interfaces_comprehensive
PoolInit ==
    /\ fs = [p \in Paths |-> Missing]
    /\ InitSync
    /\ desired = <<>>
    /\ InitLoad
    /\ rules = _load_comprehensive_rules
    /\ device = NetworkDevice("0xffff", "0xffff", "", FALSE)
    /\ resolved = None
    /\ devices = <<>>
    /\ queue = <<>>
    /\ bpc = "off"
    /\ frame = NoFrame
    /\ results = EmptyResults
    /\ trace = <<>>
    /\ cmdfaults = 0
    /\ enable_boot_config = FALSE
    /\ enable_dhcp_config = FALSE
    /\ interfaces = <<>>
    /\ config_changes = EmptyDict
    /\ pool = [NoPool EXCEPT !.pc = "list"]

PoolFixed == <<syncVars, loadVars, resolved, batchVars>>

PoolNext ==
    \/ /\ \E names \in InterfaceLists, outcome \in CommandOutcomes :
             ListInterfaces(names, outcome)
       /\ UNCHANGED PoolFixed
    \/ StartWorker /\ UNCHANGED PoolFixed
    \/ /\ \E i \in pool.running, outcome \in CommandOutcomes : Complete(i, outcome)
       /\ UNCHANGED PoolFixed
    \/ Zip /\ UNCHANGED PoolFixed

PoolSpec == PoolInit /\ [][PoolNext]_vars

-----------------------------------------------------------------------------
(* The synchronization claims.  A call about to return is described by call:  *)
(* what the file and the journal were at entry (pre, pre_changes), the result.*)

Succeeded == call.result = Some(TRUE)
Failed == call.result = Some(FALSE)

PreConfig == read_config_file(call.pre)
PreLines == IF call.pre.exists THEN readlines(call.pre.data) ELSE <<>>
PostLines == IF fs[call.target].exists THEN readlines(fs[call.target].data) ELSE <<>>
PostConfig == read_config_file(fs[call.target])

\* the entries of the call that change something, in the order given
ChangedEntries ==
    SelectSeq(call.entries,
              LAMBDA e : e.key \notin DOMAIN PreConfig \/ PreConfig[e.key] # e.value)
ChangedKeys == {ChangedEntries[i].key : i \in 1..Len(ChangedEntries)}
AddedEntries == SelectSeq(ChangedEntries, LAMBDA e : e.key \notin DOMAIN PreConfig)
ModifiedKeys == ChangedKeys \cap DOMAIN PreConfig
DesiredValue(k) == (CHOOSE i \in 1..Len(call.entries) : call.entries[i].key = k)

NewRecords == SubSeq(changes, Len(call.pre_changes) + 1, Len(changes))

C2_Atomic ==
    pc # "idle" =>
        \/ fs[call.target] = call.pre
        \/ call.post # None /\ fs[call.target] = NewFile(call.post[1])

C2_Witness ==
    /\ pc = "tmpwrite"
    /\ call.written > 0 /\ call.written < Len(call.new_lines)
    /\ fs[with_suffix_tmp(call.target)].exists
    /\ call.pre.exists /\ call.pre.data # <<>>

\* C3: a call that returns failure leaves the journal as it was at entry.
C3_JournalOnlyOnSuccess ==
    Failed => changes = call.pre_changes

\* C4: after a successful call every original line whose key is not the key of
\* a changed entry stands at its position with its text unchanged (the last
\* line of a file that did not end in a line break now ends in one when a
\* block was appended after it).
C4_OtherLinesPreserved ==
    Succeeded =>
        LET pre == PreLines
            post == PostLines
            changed == ChangedKeys
        IN  \A i \in 1..Len(pre) :
                ~(IsKeyLine(pre[i]) /\ LineKey(pre[i]) \in changed) =>
                    /\ i <= Len(post)
                    /\ \/ post[i] = pre[i]
                       \/ /\ i = Len(pre)
                          /\ ~Contains(pre[i], NL)
                          /\ Len(post) > Len(pre)
                          /\ post[i] = pre[i] \o <<NL>>

C4_Witness ==
    /\ Succeeded /\ call.writes = 1
    /\ ModifiedKeys # {}
    /\ \E i \in 1..Len(PreLines) : PreLines[i] = <<NL>>
    /\ \E i \in 1..Len(PreLines) : PreLines[i] # <<>> /\ Head(PreLines[i]) = HASH
    /\ \E i \in 1..Len(PreLines) : IsKeyLine(PreLines[i]) /\ LineKey(PreLines[i]) \notin ChangedKeys
    /\ \E i \in 1..Len(PreLines) : PreLines[i] = <<"junk", NL>>

\* C5: after a successful call every line of a key that existed with another
\* value holds key="value" at its position, no line for that key follows the
\* original lines, and the file has as many lines as before when every changed
\* key existed.
C5_ModifiedInPlace ==
    Succeeded =>
        LET pre == PreLines
            post == PostLines
            modified == ModifiedKeys
        IN  /\ \A i \in 1..Len(pre) :
                  (IsKeyLine(pre[i]) /\ LineKey(pre[i]) \in modified) =>
                      /\ i <= Len(post)
                      /\ post[i] = LineKey(pre[i]) \o <<EQ, DQ>>
                                     \o call.entries[DesiredValue(LineKey(pre[i]))].value
                                     \o <<DQ, NL>>
            /\ \A i \in (Len(pre) + 1)..Len(post) :
                  ~(IsKeyLine(post[i]) /\ LineKey(post[i]) \in modified)
            /\ (ChangedKeys \subseteq DOMAIN PreConfig) => Len(post) = Len(pre)

C5_Witness ==
    /\ Succeeded /\ call.writes = 1
    /\ ModifiedKeys # {} /\ ChangedKeys \subseteq DOMAIN PreConfig
    /\ Len(PreLines) > 2
    /\ \E i \in 2..Len(PreLines) : IsKeyLine(PreLines[i]) /\ LineKey(PreLines[i]) \in ModifiedKeys

IsMarkerLine(line) ==
    /\ Len(line) = 5
    /\ SubSeq(line, 1, 3) = <<HASH, SP, "NetPilot Configuration - ">>
    /\ line[5] = NL

AppendedLines == SubSeq(PostLines, Len(PreLines) + 1, Len(PostLines))

\* C6: a call on a missing or empty file succeeds unless the temporary file or
\* the rename fails; after a successful call the lines that follow the original
\* ones are, when a key is new, one marker comment and after it the key="value"
\* lines of the new keys in the order given (with blank and comment lines), and
\* no line of a new key stands among the original lines.
C6_NewKeysAppended ==
    /\ (call.result # None /\ call.entries # <<>> /\ ~call.fault
            /\ (~call.pre.exists \/ (call.pre.readable /\ call.pre.data = <<>>)))
          => Succeeded
    /\ Succeeded =>
          LET post == PostLines
              added == AddedEntries
              appended == AppendedLines
          IN  /\ SelectSeq(appended, IsKeyLine)
                    = [i \in 1..Len(added) |->
                          added[i].key \o <<EQ, DQ>> \o added[i].value \o <<DQ, NL>>]
              /\ added = <<>> => appended = <<>>
              /\ added # <<>> =>
                    /\ Len(SelectSeq(appended, IsMarkerLine)) = 1
                    /\ \E m \in 1..Len(appended) :
                          /\ IsMarkerLine(appended[m])
                          /\ \A j \in 1..(m - 1) : ~IsKeyLine(appended[j])
              /\ \A i \in 1..Len(PreLines) :
                    i <= Len(post)
                    /\ ~(IsKeyLine(post[i])
                         /\ \E j \in 1..Len(added) : added[j].key = LineKey(post[i]))

C6_Witness ==
    /\ Succeeded /\ call.writes = 1
    /\ ~call.pre.exists
    /\ Len(AddedEntries) = 2 /\ AddedEntries[1].key # AddedEntries[2].key
    /\ Len(PostLines) = 5

\* C7: a successful call appends one record per changed entry, in order, and
\* nothing else: "modified" with the old value when the key existed, "added"
\* with no old value otherwise, the desired value as new value, and the backup
\* made in this call, which holds the content at entry.
C7_OneRecordPerChange ==
    Succeeded =>
        /\ Len(changes) = Len(call.pre_changes) + Len(ChangedEntries)
        /\ SubSeq(changes, 1, Len(call.pre_changes)) = call.pre_changes
        /\ \A i \in 1..Len(ChangedEntries) :
              LET r == NewRecords[i]
                  e == ChangedEntries[i]
              IN  /\ r.key = e.key
                  /\ r.file_path = call.target
                  /\ r.new_value = e.value
                  /\ (r.action = "modified") = (e.key \in DOMAIN PreConfig)
                  /\ r.action \in {"modified", "added"}
                  /\ r.old_value = IF e.key \in DOMAIN PreConfig
                                   THEN Some(PreConfig[e.key]) ELSE None
                  /\ r.backup_file = call.backup_file
                  /\ r.backup_file # None =>
                        /\ r.backup_file[1] \in DOMAIN backups
                        /\ backups[r.backup_file[1]] = call.pre.data

C7_Witness ==
    /\ Succeeded /\ pc = "return"
    /\ Len(call.entries) = 2 /\ Len(ChangedEntries) = 1
    /\ NewRecords[1].action = "modified"
    /\ NewRecords[1].backup_file # None

-----------------------------------------------------------------------------
(* The matcher claims *)

\* what the specification asks of a rule for a descriptor
Passes(rule, dev) ==
    /\ rule.kld \notin blacklist
    /\ rule.is_usb = dev.is_usb
    /\ (rule.vendor # "" => dev.vendor = rule.vendor)
    /\ (rule.vendor_ids # {} => dev.vendor \in rule.vendor_ids)
    /\ (rule.device_ids # {} => dev.device \in rule.device_ids)
    /\ (rule.device_class # "" => dev.device_class = rule.device_class)

PassingRules == {i \in 1..Len(rules) : Passes(rules[i], device)}

\* C9: match_device returns None when no rule passes, and otherwise a passing
\* rule of the smallest load_order, the earliest declared of those.
C9_LowestPriorityFirstDeclared ==
    \A n \in 1..Len(matched) :
        LET r == matched[n].rule
        IN  /\ (r = 0) = (PassingRules = {})
            /\ r # 0 =>
                  /\ r \in PassingRules
                  /\ \A j \in PassingRules :
                        /\ rules[r].load_order <= rules[j].load_order
                        /\ rules[j].load_order = rules[r].load_order => r <= j

C9_Witness ==
    /\ matched # <<>>
    /\ \E i, j \in PassingRules :
          /\ i < j
          /\ rules[i].load_order = rules[j].load_order
          /\ \A k \in PassingRules : rules[i].load_order <= rules[k].load_order
          /\ matched[1].rule = i

\* C10: every call of match_device for a descriptor returns the same result,
\* whatever loads happened between the calls.
C10_Deterministic ==
    \A m, n \in 1..Len(matched) : matched[m].rule = matched[n].rule

C10_Witness ==
    /\ Len(matched) = 2
    /\ matched[1].rule # 0
    /\ matched[1].loads = 0 /\ matched[2].loads > 0
    /\ rules[matched[1].rule].kld \in failed_modules

\* the predicates of a rule other than the blacklist
PassesPredicates(rule, dev) ==
    /\ rule.is_usb = dev.is_usb
    /\ (rule.vendor # "" => dev.vendor = rule.vendor)
    /\ (rule.vendor_ids # {} => dev.vendor \in rule.vendor_ids)
    /\ (rule.device_ids # {} => dev.device \in rule.device_ids)
    /\ (rule.device_class # "" => dev.device_class = rule.device_class)

\* C11: match_device never returns a rule whose module is blacklisted, and
\* returns None when only blacklisted rules pass their predicates.
C11_BlacklistedNeverReturned ==
    \A n \in 1..Len(matched) :
        /\ matched[n].rule # 0 => rules[matched[n].rule].kld \notin blacklist
        /\ (\A i \in 1..Len(rules) :
               PassesPredicates(rules[i], device) => rules[i].kld \in blacklist)
              => matched[n].rule = 0

C11_Witness ==
    /\ matched # <<>>
    /\ matched[1].rule = 0
    /\ \E i \in 1..Len(rules) :
          PassesPredicates(rules[i], device) /\ rules[i].kld \in blacklist

\* C12: the rule match_device returns is a USB rule exactly when the
\* descriptor is a USB descriptor; a USB descriptor of vendor 0x10ec never
\* gets a rule that declares vendor 0x10ec for PCI.
C12_BusKindAgrees ==
    \A n \in 1..Len(matched) :
        matched[n].rule # 0 =>
            /\ rules[matched[n].rule].is_usb = device.is_usb
            /\ (device.is_usb /\ device.vendor = "0x10ec") =>
                  ~(rules[matched[n].rule].vendor = "0x10ec"
                    /\ ~rules[matched[n].rule].is_usb)

C12_Witness ==
    /\ matched # <<>>
    /\ matched[1].rule # 0
    /\ device.is_usb /\ device.vendor = "0x10ec"
    /\ \E i \in 1..Len(rules) :
          /\ rules[i].vendor = "0x10ec" /\ ~rules[i].is_usb
          /\ device.device \in rules[i].device_ids

-----------------------------------------------------------------------------
(* The firmware claims *)

\* the override tables, each for the rules of a vendor whose firmware is of a family
OverrideTables ==
    { [vendor |-> "0x8086", family |-> "iwlwifi", table |-> device_firmware_map_iwlwifi],
      [vendor |-> "0x168c", family |-> "ath10k", table |-> device_firmware_map_ath10k],
      [vendor |-> "0x17cb", family |-> "ath11k", table |-> device_firmware_map_ath11k],
      [vendor |-> "0x10ec", family |-> "rtw88", table |-> device_firmware_map_rtw88],
      [vendor |-> "0x10ec", family |-> "rtw89", table |-> device_firmware_map_rtw89] }

\* the overrides the tables of the rule's vendor family hold for the device id
Overrides(rule, dev) ==
    {t.table[dev.device] :
        t \in {u \in OverrideTables : /\ u.vendor = rule.vendor
                                      /\ InName(u.family, rule.firmware)
                                      /\ dev.device \in DOMAIN u.table}}

\* C13: get_specific_firmware_package returns None for a rule without
\* firmware, otherwise the override of the rule's vendor family for the
\* descriptor's device id when there is one, otherwise the rule's firmware.
C13_FirmwareResolved ==
    resolved # None =>
        LET rule == rules[resolved[1].rule]
            over == Overrides(rule, device)
        IN  /\ rule.firmware = "" => resolved[1].firmware = None
            /\ (rule.firmware # "" /\ over # {}) =>
                  /\ Cardinality(over) = 1
                  /\ resolved[1].firmware = Some(CHOOSE f \in over : TRUE)
            /\ (rule.firmware # "" /\ over = {}) =>
                  resolved[1].firmware = Some(rule.firmware)

C13_Witness ==
    /\ resolved # None
    /\ resolved[1].by = "call"
    /\ rules[resolved[1].rule].firmware = "wifi-firmware-rtw88-kmod"
    /\ resolved[1].firmware = Some("wifi-firmware-rtw88-kmod-rtw8822c")

\* C14: the PCI descriptor 0x8086:0x2725 is matched to the Intel AX210 rule,
\* not to the general Intel WiFi rule, and its firmware resolves to the ax210
\* package.
C14_ScenarioAX210 ==
    (/\ resolved # None /\ resolved[1].by = "match"
     /\ device.vendor = "0x8086" /\ device.device = "0x2725" /\ ~device.is_usb) =>
        LET rule == rules[resolved[1].rule]
        IN  /\ rule.kld = "if_iwlwifi"
            /\ rule.load_order = 58
            /\ rule.firmware = "wifi-firmware-iwlwifi-kmod-ax210"
            /\ rule.device_ids = {"0x2725", "0x51f0", "0x51f1", "0x54f0", "0x7af0"}
            /\ resolved[1].firmware = Some("wifi-firmware-iwlwifi-kmod-ax210")
            /\ resolved[1].firmware # Some("wifi-firmware-iwlwifi-kmod")

C14_Witness ==
    /\ resolved # None /\ resolved[1].by = "match"
    /\ device.vendor = "0x8086" /\ device.device = "0x2725" /\ ~device.is_usb
    /\ \E i \in 1..Len(rules) :
          /\ i # resolved[1].rule
          /\ RuleMatches(rules[i], device)
          /\ rules[i].firmware = "wifi-firmware-iwlwifi-kmod"

-----------------------------------------------------------------------------
(* The batch claims *)

\* the type of the rule matched for the device at position d of the batch
MatchedType(d) ==
    IF match_device(devices[d]) = 0 THEN "none"
    ELSE rules[match_device(devices[d])].device_type

Wired(d) == MatchedType(d) \in {"ethernet", "usb_ethernet"}
Wireless(d) == MatchedType(d) \in {"wifi", "usb_wifi"}

BatchOver == bpc \in {"done", "loader", "loader_done", "rc", "end"}

\* the events of a kind for the device at position d
EventsOf(d, op) == SelectSeq(trace, LAMBDA e : e.dev = d /\ e.op = op)

\* C15: no load for a device whose matched rule is an Ethernet or USB-Ethernet
\* rule comes after a load for a device whose matched rule is a WiFi or USB-WiFi
\* rule.
C15_WiredBeforeWireless ==
    \A i, j \in 1..Len(trace) :
        (i < j /\ trace[i].op = "load" /\ Wireless(trace[i].dev))
            => ~(trace[j].op = "load" /\ Wired(trace[j].dev))

\* C16: when the batch is over every descriptor was matched once; every
\* matched one has one outcome and one entry in results, whatever failed for
\* the others; and when _configure_system_files is over, each file that had
\* entries was attempted, whatever happened to the other.
C16_FailureIsolated ==
    /\ BatchOver =>
          /\ \A d \in 1..Len(devices) :
                /\ Len(EventsOf(d, "match")) = 1
                /\ EventsOf(d, "match")[1].rule = match_device(devices[d])
                /\ Len(EventsOf(d, "outcome"))
                      = (IF match_device(devices[d]) = 0 THEN 0 ELSE 1)
          /\ Len(results.successful) + Len(results.failed)
                = Cardinality({d \in 1..Len(devices) : match_device(devices[d]) # 0})
    /\ bpc = "end" =>
          /\ CallsLoader => loader_conf \in DOMAIN config_changes
          /\ CallsRc => rc_conf \in DOMAIN config_changes

C16_Witness ==
    /\ bpc = "end"
    /\ \E j, k \in 1..Len(trace) :
          /\ j < k
          /\ trace[j].op = "outcome" /\ trace[j].outcome = "failed"
          /\ trace[k].op = "outcome" /\ trace[k].outcome = "successful"
    /\ loader_conf \in DOMAIN config_changes /\ ~config_changes[loader_conf]
    /\ rc_conf \in DOMAIN config_changes /\ config_changes[rc_conf]

\* C17: a device whose matched module is in failed_modules gets no load, of
\* the module or of a prerequisite, and is not reported as a failed load.
C17_SkippedNotFailed ==
    \A k \in 1..Len(trace) :
        trace[k].op = "skip" =>
            /\ EventsOf(trace[k].dev, "load") = <<>>
            /\ \A j \in 1..Len(trace) :
                  ~(/\ trace[j].op = "outcome"
                    /\ trace[j].dev = trace[k].dev
                    /\ trace[j].outcome = "failed")
            /\ Len(results.failed)
                  = Cardinality({j \in 1..Len(trace) :
                                    trace[j].op = "load" /\ trace[j].role = "main"
                                    /\ ~trace[j].result})

\* C18: kldload is never run for a module that is in failed_modules.
C18_FailedNeverReloaded ==
    \A k \in 1..Len(trace) :
        (trace[k].op = "load" /\ trace[k].was_failed) => trace[k].kldload # "run"

\* the modules of the prerequisite steps made for the device at position d
PrerequisiteSteps(d) ==
    LET steps == SelectSeq(trace, LAMBDA e : /\ e.dev = d
                                             /\ \/ e.op = "loaded"
                                                \/ e.op = "load" /\ e.role = "dep")
    IN  [i \in 1..Len(steps) |-> steps[i].module]

\* C19: when the main module of a device is loaded, its prerequisites were
\* all looked at, in declared order, whatever their loads gave; and the
\* outcome of the device is the result of the main module's load.
C19_BestEffortPrerequisites ==
    \A k \in 1..Len(trace) :
        (trace[k].op = "load" /\ trace[k].role = "main") =>
            LET d == trace[k].dev
                rule == rules[match_device(devices[d])]
            IN  /\ trace[k].module = rule.kld
                /\ PrerequisiteSteps(d) = rule.dependencies
                /\ \A j \in 1..Len(trace) :
                      (trace[j].dev = d /\ trace[j].op \in {"loaded", "load"} /\ j # k)
                          => j < k
                /\ k < Len(trace)
                /\ trace[k + 1].op = "outcome" /\ trace[k + 1].dev = d
                /\ trace[k + 1].outcome = (IF trace[k].result THEN "successful" ELSE "failed")

C19_Witness ==
    \E j, k \in 1..Len(trace) :
        /\ j < k
        /\ trace[j].op = "load" /\ trace[j].role = "dep" /\ ~trace[j].result
        /\ trace[j].module = "linuxkpi"
        /\ trace[k].op = "load" /\ trace[k].role = "main" /\ trace[k].result
        /\ trace[k].dev = trace[j].dev
        /\ Len(PrerequisiteSteps(trace[k].dev)) = 2

\* C20: a _load_single_module call that finds the module reported loaded
\* returns True and does not run kldload.
C20_LoadedNotReloaded ==
    \A k \in 1..Len(trace) :
        (trace[k].op = "load" /\ trace[k].reported) =>
            /\ trace[k].result
            /\ trace[k].kldload = "none"

C20_Witness ==
    \E k \in 1..Len(trace) :
        /\ trace[k].op = "load" /\ trace[k].reported
        /\ trace[k].module \in kld
        /\ trace[k].module \notin loaded_modules

\* the module of the rule matched for the device at position d
MatchedModule(d) == rules[match_device(devices[d])].kld

\* C21: after a device's outcome "successful" its module is in
\* loaded_modules (also when kldstat already listed it), and after an
\* outcome "failed" its module is in failed_modules.
C21_OutcomeRecorded ==
    \A k \in 1..Len(trace) :
        trace[k].op = "outcome" =>
            IF trace[k].outcome = "successful"
            THEN MatchedModule(trace[k].dev) \in loaded_modules
            ELSE MatchedModule(trace[k].dev) \in failed_modules

\* C22: a firmware installation for a device comes after a successful load
\* of its main module and only for a rule with firmware; a package pkg info
\* finds is a success without pkg install; the first call is for the specific
\* package, and a second call is made exactly when the first failed and the
\* rule's own package differs, for that package; never a third.
C22_FirmwareStep ==
    /\ \A k \in 1..Len(trace) :
          trace[k].op = "firmware" =>
              /\ \E j \in 1..(k - 1) :
                    /\ trace[j].op = "load" /\ trace[j].role = "main"
                    /\ trace[j].dev = trace[k].dev /\ trace[j].result
              /\ rules[match_device(devices[trace[k].dev])].firmware # ""
              /\ trace[k].already => (trace[k].result /\ trace[k].install = "none")
    /\ \A d \in 1..Len(devices) :
          LET fw == EventsOf(d, "firmware")
              rule == rules[match_device(devices[d])]
              specific == get_specific_firmware_package(devices[d], rule)
          IN  fw # <<>> =>
                  /\ fw[1].package = specific[1]
                  /\ Len(fw) = (IF ~fw[1].result /\ specific[1] # rule.firmware
                                THEN 2 ELSE 1)
                  /\ Len(fw) = 2 => fw[2].package = rule.firmware

C22_Witness ==
    \E d \in 1..Len(devices) :
        LET fw == EventsOf(d, "firmware")
        IN  /\ Len(fw) = 2
            /\ fw[1].install = "run" /\ ~fw[1].result
            /\ fw[2].already /\ fw[2].result
            /\ fw[2].package # fw[1].package

\* C23: a device whose firmware calls all failed is still in
\* results["successful"] and not in results["failed"], has no record in
\* results["firmware_installed"], and its module is not in failed_modules and
\* is still loaded.
C23_FirmwareFailureKeepsDriver ==
    \A d \in 1..Len(devices) :
        LET fw == EventsOf(d, "firmware")
            entry == DriverResult(devices[d], rules[match_device(devices[d])])
        IN  (fw # <<>> /\ \A i \in 1..Len(fw) : ~fw[i].result) =>
                /\ \E i \in 1..Len(results.successful) : results.successful[i] = entry
                /\ \A i \in 1..Len(results.failed) : results.failed[i] # entry
                /\ \A i \in 1..Len(results.firmware_installed) :
                      results.firmware_installed[i].device # d
                /\ MatchedModule(d) \notin failed_modules
                /\ MatchedModule(d) \in kld
                /\ \A i \in 1..Len(trace) :
                      (trace[i].op = "load" /\ trace[i].dev = d /\ trace[i].role = "main"
                       /\ ~trace[i].reported) => MatchedModule(d) \in loaded_modules

C23_Witness ==
    /\ BatchOver
    /\ \E d \in 1..Len(devices) :
          LET fw == EventsOf(d, "firmware")
          IN  /\ Len(fw) = 2
              /\ ~fw[1].result /\ ~fw[2].result
              /\ MatchedModule(d) \in loaded_modules
              /\ Len(results.successful) = 1

\* the next device of the batch has no rule
NoMatchNext ==
    /\ bpc = "device"
    /\ frame.i <= Len(queue)
    /\ match_device(devices[queue[frame.i]]) = 0

\* C24: the step for a device without a rule leaves loaded_modules,
\* failed_modules, the kernel's modules, the command cache and results as
\* they are and adds only the match to the trace; such a device never has a
\* load, a firmware call or an outcome.
C24_NoMatchNoEffect ==
    /\ [][NoMatchNext =>
            /\ loaded_modules' = loaded_modules
            /\ failed_modules' = failed_modules
            /\ kld' = kld
            /\ cache' = cache
            /\ results' = results
            /\ trace' = Append(trace, [op |-> "match", dev |-> queue[frame.i], rule |-> 0])]_vars
    /\ [](\A k \in 1..Len(trace) :
            match_device(devices[trace[k].dev]) = 0 => trace[k].op = "match")

C24_Witness ==
    /\ loaded_modules # {}
    /\ results.successful # <<>>
    /\ \E k \in 2..Len(trace) : trace[k].op = "match" /\ trace[k].rule = 0

\* C25: a call that finds every entry already there with its value has made
\* no backup; and a backup made by a call that replaces the target holds the
\* content the target had before the call (a copy that failed is C26's case).
C25_BackupOnlyOnChange ==
    /\ (pc = "return" /\ call.entries # <<>> /\ call.new_entries = <<>>)
           => call.backup_file = None
    /\ (pc # "idle" /\ fs[call.target] # call.pre /\ call.backup_file # None)
           => DictGet(backups, call.backup_file[1]) = Some(call.pre.data)

\* the copy of an existing, readable target failed in this call
BackupFailed ==
    /\ pc \notin {"idle", "backup"}
    /\ call.entries # <<>>
    /\ call.pre.exists /\ call.pre.readable
    /\ call.backup_file = None

\* C26: after a failed copy the call goes on: it is not ended before the
\* entries are compared, the records of the changed entries are appended
\* with no backup path, and the call fails only when the write itself fails;
\* a call that succeeds has written the new content.
C26_BackupFailureNotFatal ==
    BackupFailed =>
        /\ pc = "read" => call.result = None
        /\ pc # "read" =>
              /\ Len(NewRecords) = Len(ChangedEntries)
              /\ \A i \in 1..Len(NewRecords) :
                    /\ NewRecords[i].backup_file = None
                    /\ NewRecords[i].key = ChangedEntries[i].key
        /\ Failed => call.fault
        /\ (Succeeded /\ ChangedEntries # <<>>) =>
              /\ call.writes = 1
              /\ call.post # None /\ fs[call.target] = NewFile(call.post[1])
              /\ \A i \in 1..Len(call.entries) :
                    /\ call.entries[i].key \in DOMAIN PostConfig
                    /\ PostConfig[call.entries[i].key] = call.entries[i].value

C26_Witness ==
    /\ BackupFailed
    /\ pc = "return" /\ Succeeded
    /\ call.writes = 1
    /\ Len(NewRecords) = 2
    /\ fs[call.target] # call.pre

\* C27: no module is in loaded_modules and in failed_modules at once.
C27_LoadedFailedDisjoint == loaded_modules \cap failed_modules = {}

-----------------------------------------------------------------------------
(* The interface discovery claims *)

\* C28: run_parallel returns one result per command, and the discovery pairs
\* each interface name with the result of its own command: every interface
\* it returns carries the address of the interface it is named after.
C28_OwnResult ==
    pool.pc = "done" =>
        /\ Len(pool.results) = Len(pool.interface_names)
        /\ \A k \in 1..Len(pool.interface_names) :
              pool.results[k].args = IfconfigCmd(pool.interface_names[k])
        /\ \A k \in 1..Len(pool.interfaces) :
              pool.interfaces[k].mac_address = <<"mac", pool.interfaces[k].name>>

-----------------------------------------------------------------------------
(* The claims about the shipped tables *)

\* C29: every rule of the table whose module is not blacklisted is returned
\* by match_device for at least one descriptor.
C29_EveryRuleSelectable ==
    \A r \in 1..Len(rules) :
        rules[r].kld \notin blacklist =>
            \E dev \in ShippedDevices : match_device(dev) = r

HoldsEntry(entries, key, value) ==
    \E i \in 1..Len(entries) : entries[i].key = key /\ entries[i].value = value

\* C30: in a run with enable_boot_config, once the batch is over, the entries
\* generated for loader.conf hold,
\* for every device reported successful, <module>_load="YES" and
\* <module>_name="/boot/modules/<module>.ko", and linuxkpi_load="YES" when the
\* device's rule has linuxkpi among its dependencies.
C30_BootPersistence ==
    (BatchOver /\ enable_boot_config) =>
        \A k \in 1..Len(trace) :
            (trace[k].op = "outcome" /\ trace[k].outcome = "successful") =>
                LET rule == rules[match_device(devices[trace[k].dev])]
                    module == rule.kld
                IN  /\ HoldsEntry(LoaderEntries, <<module, "_load">>, <<"YES">>)
                    /\ HoldsEntry(LoaderEntries, <<module, "_name">>,
                                 <<"/boot/modules/", module, ".ko">>)
                    /\ (\E i \in 1..Len(rule.dependencies) : rule.dependencies[i] = "linuxkpi")
                          => HoldsEntry(LoaderEntries, <<"linuxkpi_load">>, <<"YES">>)

====
